---- MODULE Spec2Model ----
(***************************************************************************)
(* A model of finbert-rust-options-api: the batch handler perform_analysis *)
(* (src/src/main.rs), the retrying fetches and the contract-key decoding   *)
(* (src/src/alpaca_data.rs) and the sentiment model wrapper                *)
(* (src/src/onnx_sentiment.rs).                                            *)
(*                                                                         *)
(* Five specifications share the variables:                                *)
(*   Spec        the news fetch and the per-symbol options fan-out of a    *)
(*               batch, batch after batch, and its cancellation;           *)
(*   SpecCache   the sentiment section of concurrent batches (the two      *)
(*               model locks, the sentiment cache), the health check and   *)
(*               the cache sweep;                                          *)
(*   SpecCacheFair  SpecCache with the progress of the runtime;            *)
(*   SpecKeys    the contract-key decoding, scoring and metric entry       *)
(*               points applied to one snapshot entry;                     *)
(*   SpecSignals the rest of a batch whose sentiments are in: the overall  *)
(*               sentiment, the analyses, the signals, the risk filter     *)
(*               and the summaries.                                        *)
(* Each specification leaves the other parts' variables at their initial   *)
(* value.                                                                  *)
(***************************************************************************)
EXTENDS Integers, Sequences, FiniteSets, TLC

VARIABLES
    now,                      \* the monotonic clock (Instant::now()), in seconds
    max_concurrent_requests,  \* AppConfig.max_concurrent_requests
    batch,                    \* the running perform_analysis: [pc, no, error]
    news,                     \* get_alpaca_news' retry loop: [pc, attempt, slept]
    unique_symbols_vec,       \* the non-crypto symbols of the batch
    crypto_symbols,           \* the symbols is_crypto_symbol filtered out
    task,                     \* per symbol: the options future [pc, attempt, slept]
    in_progress,              \* the futures buffer_unordered holds
    options_analysis,         \* Vec<SymbolOptionsAnalysis>, in completion order
    OPTIONS_CACHE,            \* symbol -> (value, timestamp)
    fetched_at,               \* history: when a snapshot of the symbol last arrived
    SENTIMENT_CACHE,          \* headline -> (sentiment, confidence, timestamp)
    ONNX_SENTIMENT_MODEL,     \* the global Mutex<Option<model>>: [locked_by, model,
                              \* model_locked_by], the last the model's own Mutex
    req,                      \* per request: the sentiment section's locals
    sweep,                    \* cleanup_expired_cache_entries: [pc, now, left]
    contract,                 \* SpecKeys: the snapshot entry under analysis
    stage,                    \* SpecKeys: how far its analysis got
    outcome,                  \* SpecKeys: what each step returned
    feed,                     \* SpecSignals: sentiments, fetch results, clock
    news_analysis,            \* Vec<SentimentAnalysis>, sorted by confidence
    overall_sentiment,        \* "call" or "put"
    signals,                  \* history: every signal built, before the filter
    trading_signals,          \* the admitted signals
    summary                   \* market_summary, risk_metrics, execution_metadata

fanout_vars == <<max_concurrent_requests, batch, news, unique_symbols_vec,
                 crypto_symbols, task, in_progress, options_analysis,
                 OPTIONS_CACHE, fetched_at>>
cache_vars == <<SENTIMENT_CACHE, ONNX_SENTIMENT_MODEL, req, sweep>>
keys_vars == <<contract, stage, outcome>>
signal_vars == <<feed, news_analysis, overall_sentiment, signals, trading_signals,
                 summary>>
vars == <<now, fanout_vars, cache_vars, keys_vars, signal_vars>>

\* The holder of a mutex nobody holds.
Unlocked == 0
Panic == "panic"

(***************************************************************************)
(* Bounds of the model.                                                    *)
(***************************************************************************)
MaxConcurrent == 2
MaxBatches == 2
MaxClock == 300

(***************************************************************************)
(* Program constants.                                                      *)
(***************************************************************************)
max_attempts == 3
SENTIMENT_TTL == 300
OPTIONS_TTL == 180

\* The clock is observed at steps of the two TTLs, so that an entry's age
\* can be below, at and above its TTL.
ClockSteps == {OPTIONS_TTL, SENTIMENT_TTL}

Pow2(n) == IF n = 0 THEN 1 ELSE IF n = 1 THEN 2 ELSE IF n = 2 THEN 4 ELSE 8

(***************************************************************************)
(* Contract keys.  A key is a sequence of one-character strings, so that   *)
(* the slicing and digit parsing of the code can be followed position by   *)
(* position.  Amounts of dollars are in thousandths (strike) and scores in *)
(* thousandths of a point.                                                 *)
(***************************************************************************)
DigitChars == <<"0", "1", "2", "3", "4", "5", "6", "7", "8", "9">>

IsDigit(c) == \E i \in 1..10 : DigitChars[i] = c

DigitVal(c) == (CHOOSE i \in 1..10 : DigitChars[i] = c) - 1

Slice(s, from, to) == [i \in 1..(to - from) |-> s[from + i]]

RECURSIVE DecimalValue(_)
DecimalValue(s) ==
    IF Len(s) = 0 THEN 0
    ELSE 10 * DecimalValue(SubSeq(s, 1, Len(s) - 1)) + DigitVal(s[Len(s)])

\* str::parse::<u32>: digits with an optional leading "+"; -1 stands for Err.
\* A u32 holds every number of up to 9 digits; longer digit runs (which may
\* overflow a u32) do not occur in the keys of this model and count as Err.
ParseU32(s) ==
    LET body == IF Len(s) > 0 /\ s[1] = "+" THEN Tail(s) ELSE s
    IN  IF Len(body) = 0 \/ \E i \in 1..Len(body) : ~IsDigit(body[i]) THEN -1
        ELSE IF Len(body) > 9 THEN -1
        ELSE DecimalValue(body)

\* Encoding, for building keys: n written with w digits.
RECURSIVE Pow10(_)
Pow10(n) == IF n = 0 THEN 1 ELSE 10 * Pow10(n - 1)

DigitsOf(n, w) == [i \in 1..w |-> DigitChars[((n \div Pow10(w - i)) % 10) + 1]]

days_in_month == <<31, 28, 31, 30, 31, 30, 31, 31, 30, 31, 30, 31>>
current_year == 2025
current_month == 9
current_day == 16

RECURSIVE SumDays(_, _)
SumDays(m, month) ==
    IF m >= month THEN 0 ELSE days_in_month[m] + SumDays(m + 1, month)

\* parse_days_to_expiry: [tag |-> "some", val] | [tag |-> "none"] | a panic
\* when the month loop indexes days_in_month out of range.
parse_days_to_expiry(contract_key) ==
    IF Len(contract_key) < 10 THEN [tag |-> "none", val |-> 0]
    ELSE LET date_str == ParseU32(Slice(contract_key, 4, 10))
             year == 2000 + (date_str \div 10000)
             month == (date_str % 10000) \div 100
             day == date_str % 100
         IN  IF date_str = -1 \/ year # current_year
             THEN [tag |-> "none", val |-> 0]
             ELSE IF \E m \in current_month..(month - 1) : m \notin DOMAIN days_in_month
             THEN [tag |-> Panic, val |-> 0]
             ELSE LET days_to_expiry == SumDays(current_month, month) + day - current_day
                  IN  IF days_to_expiry > 0
                      THEN [tag |-> "some", val |-> days_to_expiry]
                      ELSE [tag |-> "none", val |-> 0]

\* parse_strike_price_from_contract_key, in thousandths of a dollar.
TrailingDigits(s) ==
    LET n == Len(s)
        k == CHOOSE j \in 0..n :
                /\ \A i \in (n - j + 1)..n : IsDigit(s[i])
                /\ (j = n \/ ~IsDigit(s[n - j]))
    IN  Slice(s, n - k, n)

\* The fallback alone: the trailing digits, scaled by their magnitude.
parse_strike_price_from_trailing_digits(contract_key) ==
    LET numeric_end == TrailingDigits(contract_key)
        strike_int == IF Len(numeric_end) = 0 THEN -1 ELSE ParseU32(numeric_end)
    IN  IF strike_int = -1 THEN 0
        ELSE IF strike_int > 1000000 THEN strike_int
        ELSE IF strike_int > 10000 THEN strike_int * 10
        ELSE strike_int * 1000

parse_strike_price_from_contract_key(contract_key) ==
    LET n == Len(contract_key)
        last8 == IF n >= 15 THEN ParseU32(Slice(contract_key, n - 8, n)) ELSE -1
        last7 == IF n >= 15 THEN ParseU32(Slice(contract_key, n - 7, n)) ELSE -1
        last6 == IF n >= 15 THEN ParseU32(Slice(contract_key, n - 6, n)) ELSE -1
        numeric_end == TrailingDigits(contract_key)
        strike_int == IF Len(numeric_end) = 0 THEN -1 ELSE ParseU32(numeric_end)
    IN  IF last8 # -1 THEN last8
        ELSE IF last7 # -1 THEN last7
        ELSE IF last6 # -1 THEN last6
        ELSE IF strike_int = -1 THEN 0
        ELSE IF strike_int > 1000000 THEN strike_int
        ELSE IF strike_int > 10000 THEN strike_int * 10
        ELSE strike_int * 1000

\* parse_expiration_date_from_contract_key: [tag |-> "date", y, m, d] for the
\* string "YYYY-MM-DD", [tag |-> "empty"] for String::new(), or a panic when
\* the scan slices six characters out of a shorter key.
possible_positions == <<<<15, 9>>, <<14, 8>>, <<13, 7>>, <<12, 6>>>>

DateAt(s, start) ==
    LET year == ParseU32(Slice(s, start, start + 2))
        month == ParseU32(Slice(s, start + 2, start + 4))
        day == ParseU32(Slice(s, start + 4, start + 6))
    IN  IF /\ year # -1 /\ month # -1 /\ day # -1
           /\ month >= 1 /\ month <= 12 /\ day >= 1 /\ day <= 31
        THEN [tag |-> "date", y |-> 2000 + year, m |-> month, d |-> day]
        ELSE [tag |-> "empty", y |-> 0, m |-> 0, d |-> 0]

AllDigits(s) == \A i \in 1..Len(s) : IsDigit(s[i])

parse_expiration_date_from_contract_key(contract_key) ==
    LET n == Len(contract_key)
        fits == {p \in 1..4 : n >= possible_positions[p][1]
                               /\ DateAt(contract_key, n - possible_positions[p][1]).tag = "date"}
        sat == IF n >= 6 THEN n - 6 ELSE 0
        scan == {i \in 0..sat : /\ AllDigits(Slice(contract_key, i, i + 6))
                                /\ DateAt(contract_key, i).tag = "date"}
    IN  IF fits # {}
        THEN DateAt(contract_key, n - possible_positions[CHOOSE p \in fits : \A q \in fits : p <= q][1])
        ELSE IF n < 6 THEN [tag |-> Panic, y |-> 0, m |-> 0, d |-> 0]
        ELSE IF scan # {}
        THEN DateAt(contract_key, CHOOSE i \in scan : \A j \in scan : i <= j)
        ELSE [tag |-> "empty", y |-> 0, m |-> 0, d |-> 0]

(***************************************************************************)
(* Snapshot entries.  An entry of the "snapshots" map is                   *)
(*   [contract_key, as, has_ap, ap, oi]                                    *)
(* as: latestQuote.as when it is a u64, else -1 (absent, negative or not   *)
(* an integer, or no latestQuote); ap: latestQuote.ap in cents when has_ap;*)
(* oi: open_interest when it is a u64, else -1.  A snapshot is the         *)
(* sequence of the map's entries in iteration order.  Option<T> is a       *)
(* sequence of length 0 or 1.                                              *)
(***************************************************************************)
Volume(c) == IF c.as = -1 THEN 0 ELSE c.as

\* The entries left in the order of the map.
SortByVolume_Unsorted(contracts) == contracts

\* The stable descending sort of the entries by the volume proxy.
RECURSIVE SortByVolume(_)
SortByVolume(contracts) ==
    IF Len(contracts) = 0 THEN <<>>
    ELSE LET best == CHOOSE i \in 1..Len(contracts) :
                        /\ \A j \in 1..Len(contracts) : Volume(contracts[j]) <= Volume(contracts[i])
                        /\ \A j \in 1..(i - 1) : Volume(contracts[j]) < Volume(contracts[i])
             rest == [j \in 1..(Len(contracts) - 1) |->
                        IF j < best THEN contracts[j] ELSE contracts[j + 1]]
         IN  <<contracts[best]>> \o SortByVolume(rest)

\* debug_contract_data: decodes strike and date of the key for the log.
debug_contract_data(c) ==
    IF parse_expiration_date_from_contract_key(c.contract_key).tag = Panic
    THEN Panic ELSE "logged"

\* The Ok arm of get_high_open_interest_contracts: the two entries with the
\* highest volume proxy, each logged by debug_contract_data.
SelectContracts(payload) ==
    LET contracts == SortByVolume(payload)
        picked == [i \in 1..(IF Len(contracts) > 1 THEN 2 ELSE Len(contracts)) |->
                      contracts[i]]
    IN  IF \E i \in 1..Len(picked) : debug_contract_data(picked[i]) = Panic
        THEN [tag |-> Panic, short_term |-> <<>>, leap |-> <<>>, error |-> <<>>]
        ELSE [tag |-> "result",
              short_term |-> IF Len(picked) >= 1 THEN <<picked[1]>> ELSE <<>>,
              leap |-> IF Len(picked) >= 2 THEN <<picked[2]>> ELSE <<>>,
              error |-> <<>>]

\* A fetch error unwrapped instead of recorded.
get_high_open_interest_contracts_unwrap(fetched) ==
    IF ~fetched.ok
    THEN [tag |-> Panic, short_term |-> <<>>, leap |-> <<>>, error |-> <<>>]
    ELSE SelectContracts(fetched.payload)

\* get_high_open_interest_contracts, after fetch_alpaca_options returned
\* fetched = [ok, payload, err].
get_high_open_interest_contracts(fetched) ==
    IF ~fetched.ok
    THEN [tag |-> "result", short_term |-> <<>>, leap |-> <<>>, error |-> <<fetched.err>>]
    ELSE SelectContracts(fetched.payload)

Min(a, b) == IF a < b THEN a ELSE b

\* calculate_option_score in thousandths; composite_score in thousandths.
calculate_option_score(c, composite_score) ==
    LET days == parse_days_to_expiry(c.contract_key)
        base == (composite_score * 3) \div 10
        volume == IF c.as # -1 THEN Min(c.as, 10000) ELSE 0
        price == IF c.has_ap /\ c.ap > 0 THEN Min(100000 \div c.ap, 5000) ELSE 0
        expiry == IF days.tag # "some" THEN 0
                  ELSE IF days.val < 30 THEN -2000
                  ELSE IF days.val > 365 THEN -1000
                  ELSE 1000
        liquidity == IF c.oi = -1 THEN 0
                     ELSE IF c.oi > 1000 THEN 2000
                     ELSE IF c.oi > 100 THEN 1000
                     ELSE IF c.oi < 50 THEN -1000
                     ELSE 0
    IN  IF days.tag = Panic THEN [tag |-> Panic, val |-> 0]
        ELSE [tag |-> "score", val |-> base + volume + price + expiry + liquidity]

\* calculate_time_to_expiry decodes the date of the key first.
calculate_time_to_expiry(c) ==
    IF parse_expiration_date_from_contract_key(c.contract_key).tag = Panic
    THEN Panic ELSE "days"

\* calculate_option_financial_metrics, as far as its early return:
\* "none" without a positive entry price, else the metrics of the contract
\* with the strike it used (thousandths; entry_price * 1.1 when the key
\* gave none).
calculate_option_financial_metrics(c) ==
    LET entry_price == IF c.has_ap THEN c.ap ELSE 0
        strike_price == parse_strike_price_from_contract_key(c.contract_key)
    IN  IF entry_price <= 0 THEN [tag |-> "none", strike_price |-> 0]
        ELSE IF calculate_time_to_expiry(c) = Panic THEN [tag |-> Panic, strike_price |-> 0]
        ELSE [tag |-> "some",
              strike_price |-> IF strike_price > 0 THEN strike_price ELSE entry_price * 11]

\* analyze_ticker_options' choice between the two slots: the items of
\* "options_analysis".
OptionItem(type, c, score) ==
    [contract_type |-> type, contract |-> c, option_score |-> score]

\* The score of a slot; 0.0 for an absent one.
SlotScore(slot, composite_score) ==
    IF Len(slot) = 1 THEN calculate_option_score(slot[1], composite_score)
    ELSE [tag |-> "score", val |-> 0]

\* Both slots emitted.
SelectBest_Both(hoi, short_term_score, leap_score) ==
    [i \in 1..Len(hoi.short_term) |->
        OptionItem("short_term", hoi.short_term[i], short_term_score)]
    \o [i \in 1..Len(hoi.leap) |-> OptionItem("leap", hoi.leap[i], leap_score)]

\* "Select the best contract based on score".
SelectBest(hoi, short_term_score, leap_score) ==
    IF short_term_score > leap_score
    THEN IF Len(hoi.short_term) = 1
         THEN <<OptionItem("short_term", hoi.short_term[1], short_term_score)>>
         ELSE <<>>
    ELSE IF leap_score > 0
    THEN IF Len(hoi.leap) = 1
         THEN <<OptionItem("leap", hoi.leap[1], leap_score)>>
         ELSE <<>>
    ELSE IF short_term_score > 0
    THEN IF Len(hoi.short_term) = 1
         THEN <<OptionItem("short_term", hoi.short_term[1], short_term_score)>>
         ELSE <<>>
    ELSE <<>>

AnalysisOf(hoi, st, lp) ==
    IF hoi.tag = Panic \/ st.tag = Panic \/ lp.tag = Panic
    THEN [tag |-> Panic, options_analysis |-> <<>>, error |-> <<>>]
    ELSE [tag |-> "ok", options_analysis |-> SelectBest(hoi, st.val, lp.val),
          error |-> hoi.error]

analyze_ticker_options(hoi, composite_score) ==
    AnalysisOf(hoi, SlotScore(hoi.short_term, composite_score),
                    SlotScore(hoi.leap, composite_score))

\* The Ok arm of the future's match: each item with its financial metrics
\* attached when there are any.
EnhancedItem(item, metrics) ==
    [contract_type |-> item.contract_type,
     contract |-> item.contract,
     option_score |-> item.option_score,
     financial_metrics |-> metrics.tag]

SymbolOptionsAnalysis(symbol, analysis, enhanced) ==
    IF analysis.tag = Panic
       \/ \E i \in 1..Len(enhanced) : enhanced[i].financial_metrics = Panic
    THEN [tag |-> Panic, symbol |-> symbol, options_analysis |-> <<>>, error |-> <<>>]
    ELSE [tag |-> "ok", symbol |-> symbol, options_analysis |-> enhanced,
          error |-> analysis.error]

EnhancedItems(items) ==
    [i \in 1..Len(items) |->
        EnhancedItem(items[i], calculate_option_financial_metrics(items[i].contract))]

FutureOutput(symbol, analysis) ==
    SymbolOptionsAnalysis(symbol, analysis, EnhancedItems(analysis.options_analysis))

\* The future perform_analysis builds for one symbol, from the point where
\* its fetch has returned: a SymbolOptionsAnalysis, or a panic.
SymbolFuture(symbol, fetched) ==
    FutureOutput(symbol,
                 analyze_ticker_options(get_high_open_interest_contracts(fetched), 0))

(***************************************************************************)
(* The inputs of the fan-out: symbols, responses and snapshot payloads.    *)
(***************************************************************************)
Symbols == {"AAPL", "XYZ", "BTC"}

is_crypto_symbol(symbol) ==
    symbol \in {"BTC", "ETH", "BTCUSD", "ETHUSD", "SHIBUSD", "LTCUSD", "ADA", "DOT",
                "LINK", "UNI", "BCH", "LTC", "XRP", "XLM", "EOS", "TRX", "VET", "MATIC",
                "AVAX", "SOL", "ATOM", "FTM", "NEAR", "ALGO", "ICP", "FIL", "THETA",
                "XTZ", "AAVE", "COMP", "MKR", "SNX", "CRV", "YFI", "SUSHI", "1INCH",
                "BAL", "REN", "ZRX", "BAND", "KNC", "STORJ", "MANA", "SAND", "ENJ",
                "CHZ", "HOT", "DOGE", "SHIB", "BABYDOGE", "SAFEMOON", "ELON", "FLOKI",
                "PEPE", "BONK", "WIF"}

\* SYMBOL + YYMMDD + RIGHT + STRIKE (8 digits, thousandths).
CanonicalKey(symbol, yy, mm, dd, right, strike) ==
    symbol \o DigitsOf(yy, 2) \o DigitsOf(mm, 2) \o DigitsOf(dd, 2)
           \o <<right>> \o DigitsOf(strike, 8)

Entry(key, as, has_ap, ap, oi) ==
    [contract_key |-> key, as |-> as, has_ap |-> has_ap, ap |-> ap, oi |-> oi]

KeyDec150 == CanonicalKey(<<"A", "A", "P", "L">>, 25, 12, 19, "C", 150000)
KeyJan155 == CanonicalKey(<<"A", "A", "P", "L">>, 26, 1, 16, "C", 155000)
KeyMonth14 == CanonicalKey(<<"A", "A", "P", "L">>, 25, 14, 1, "C", 150000)

\* The "news" array a successful news response may carry, each item as the
\* list of its "symbols": no item, an item without symbols, a symbol in
\* several items, several symbols in one item, crypto symbols among them.
NewsPayloads ==
    { <<>>,
      << <<>> >>,
      << <<"AAPL">> >>,
      << <<"BTC">> >>,
      << <<"XYZ">>, <<"XYZ", "AAPL">> >>,
      << <<"AAPL", "BTC">>, <<"AAPL">> >>,
      << <<"XYZ">>, <<"BTC">>, <<"XYZ">> >>,
      << <<"AAPL", "XYZ", "BTC">> >> }

\* The items perform_analysis keeps: those with a non-empty symbols array.
news_with_symbols(news_array) ==
    SelectSeq(news_array, LAMBDA symbols : Len(symbols) > 0)

\* all_symbols: the HashSet collected from the symbols of the kept items.
all_symbols(kept) ==
    UNION {{kept[i][k] : k \in 1..Len(kept[i])} : i \in 1..Len(kept)}

\* No symbol taken out before the fan-out.
non_crypto_unfiltered(all) == all

\* unique_symbols_vec: all_symbols without the crypto symbols.
non_crypto(all) == {s \in all : ~is_crypto_symbol(s)}

\* The "snapshots" a successful options response may carry.
Payloads ==
    { <<>>,
      <<Entry(KeyJan155, 300, TRUE, 410, -1), Entry(KeyDec150, 1200, TRUE, 250, -1)>>,
      <<Entry(KeyMonth14, 500, TRUE, 120, -1)>> }

\* What one HTTP attempt can come back with: a 2xx whose body parses or
\* does not, a non-success status (a 5xx, or 401/403 for bad credentials),
\* the 60 s timeout, or a transport error from send().
Responses == {"success", "bad_json", "status_5xx", "status_401", "timeout", "req_error"}

Ok(payload) == [ok |-> TRUE, payload |-> payload, err |-> ""]
Err(e) == [ok |-> FALSE, payload |-> <<>>, err |-> e]

NotReturned == [ok |-> FALSE, payload |-> <<>>, err |-> "pending"]

\* A fetch about to send its first request.
FirstRequest ==
    [pc |-> "request", attempt |-> 0, slept |-> 0, sent |-> 1,
     result |-> NotReturned]

Queued ==
    [pc |-> "queued", attempt |-> 0, slept |-> 0, sent |-> 0,
     result |-> NotReturned]

\* One turn of the retry loop of get_alpaca_news and of do_request, from the
\* response of the attempt in flight: return, or count the attempt and
\* sleep 2^attempt seconds while attempts are left.
RetryLoop(f, response, payload, what) ==
    LET returned(r) == [f EXCEPT !.pc = "returned", !.result = r]
    IN  CASE response = "timeout" -> returned(Err("Request timeout"))
          [] response = "req_error" -> returned(Err("alpaca req error"))
          [] response = "success" -> returned(Ok(payload))
          [] response = "bad_json" -> returned(Err("alpaca json error"))
          [] OTHER ->
               IF f.attempt + 1 < max_attempts
               THEN [f EXCEPT !.pc = "sleep", !.attempt = f.attempt + 1]
               ELSE [f EXCEPT !.pc = "returned", !.attempt = f.attempt + 1,
                              !.result = Err("Failed to fetch " \o what
                                             \o " after all retry attempts")]

\* tokio::time::sleep(2^attempt s) is over: the next attempt is sent.
\* A fixed delay of 2 s instead of 2^attempt.
AfterSleep_FixedDelay(f) ==
    [f EXCEPT !.pc = "request", !.slept = f.slept + 2, !.sent = f.sent + 1]

AfterSleep(f) ==
    [f EXCEPT !.pc = "request", !.slept = f.slept + Pow2(f.attempt), !.sent = f.sent + 1]

get_alpaca_news(f, response, payload) == RetryLoop(f, response, payload, "news")

do_request(f, response, payload) == RetryLoop(f, response, payload, "options")

\* The entry of options_analysis a future's output becomes.
EntryOf(out) ==
    [symbol |-> out.symbol, options_analysis |-> out.options_analysis,
     error |-> out.error]

(***************************************************************************)
(* SpecSignals: the part of perform_analysis around the fan-out that turns *)
(* sentiments and per-symbol analyses into the response: news_analysis and *)
(* the overall sentiment, the sorted options_analysis, one TradingSignal   *)
(* per chosen contract (convert_to_trading_signal), the risk filter, and   *)
(* the summaries.                                                          *)
(*                                                                         *)
(* The f64 quantities are integers here: prices in cents, times in days,   *)
(* every other quantity in thousandths (0.95 is 950), rounded down after   *)
(* each multiplication and division.  The inputs are chosen so that no     *)
(* comparison of the code falls within that rounding.  Not modelled: the   *)
(* greeks, expected_return, max_loss, the reasoning and the date string of *)
(* a signal, and portfolio_var, which is computed from expected_return.    *)
(***************************************************************************)
Max(a, b) == IF a > b THEN a ELSE b

\* The days from today to the date e decoded from the key (chrono's
\* NaiveDate: the dates parse_from_str accepts, the day count
\* signed_duration_since subtracts), at least 1; 30 when the key gave no
\* date chrono parses (the contract has no expiration_date field).
DaysLeft(e, today) ==
    LET num_days(y, m, d) ==
            LET civil == IF m <= 2 THEN y - 1 ELSE y
            IN  365 * civil + civil \div 4 - civil \div 100 + civil \div 400
                + (153 * ((m + 9) % 12) + 2) \div 5 + d - 1
    IN  IF /\ e.tag = "date"
           /\ e.m \in 1..12
           /\ e.d >= 1
           /\ e.d <= (IF e.m = 2
                      THEN (IF (e.y % 4 = 0 /\ e.y % 100 # 0) \/ e.y % 400 = 0
                            THEN 29 ELSE 28)
                      ELSE IF e.m \in {4, 6, 9, 11} THEN 30 ELSE 31)
        THEN Max(num_days(e.y, e.m, e.d) - num_days(today[1], today[2], today[3]), 1)
        ELSE 30

time_to_expiry(c, today) ==
    DaysLeft(parse_expiration_date_from_contract_key(c.contract_key), today)

\* A snapshot entry together with the volatility field it carries, if any:
\* iv_field is "none" or the name of the field.
Contract(key, as, has_ap, ap, oi, iv_field, iv) ==
    [contract_key |-> key, as |-> as, has_ap |-> has_ap, ap |-> ap, oi |-> oi,
     iv_field |-> iv_field, iv |-> iv]

\* latestQuote.ap, in cents; 0.0 when absent.
entry_price(c) == IF c.has_ap THEN c.ap ELSE 0

calculate_dynamic_downside_deviation(vol, er, tte) ==
    IF vol <= 0 THEN 0
    ELSE (((vol * (600 + Min((er * 3) \div 10, 300))) \div 1000)
          * (1000 + (Min((tte * 1000) \div 365, 500) * 2) \div 10)) \div 1000

calculate_dynamic_composite_score(sh, so, ca, vol, tte) ==
    LET sharpe_weight == IF tte > 90 THEN 350 ELSE IF vol > 400 THEN 300
                         ELSE IF vol < 200 THEN 500 ELSE 400
        sortino_weight == IF tte > 90 THEN 350 ELSE IF vol > 400 THEN 500
                          ELSE IF vol < 200 THEN 300 ELSE 400
        calmar_weight == IF tte > 90 THEN 300 ELSE 200
    IN  Min((sharpe_weight * Min(sh, 3000) + sortino_weight * Min(so, 4000)
             + calmar_weight * Min(ca, 10000)) \div 1000, 5000)

\* The numbers calculate_option_financial_metrics computes from a positive
\* entry price: the strike in thousandths, the rate in millionths per year
\* (so the excess return is in millionths), the spot estimated as
\* strike * 0.95 (the contract has none of the spot fields).
FinancialNumbers(entry, strike, iv, volume, tte, risk_free_rate) ==
    LET moneyness == (((strike * 95) \div 100) * 1000) \div strike
        base_return == IF moneyness > 900 /\ moneyness < 1100 THEN (iv * 8) \div 10
                       ELSE IF moneyness > 800 /\ moneyness < 1200 THEN (iv * 6) \div 10
                       ELSE (iv * 3) \div 10
        expected_return == IF tte > 365 THEN (base_return * 15) \div 10
                           ELSE IF tte > 90 THEN (base_return * 12) \div 10
                           ELSE base_return
        volatility == (iv * (1000 + Min(volume \div 10, 1000))) \div 1000
        excess_return == expected_return * 1000 - risk_free_rate \div 252
        sharpe == IF volatility > 0 THEN excess_return \div volatility ELSE 0
        downside_deviation ==
            calculate_dynamic_downside_deviation(volatility, expected_return, tte)
        sortino == IF downside_deviation > 0 THEN excess_return \div downside_deviation
                   ELSE 0
        max_drawdown ==
            IF tte > 0
            THEN ((200 + iv \div 2)
                  * (1000 - (Min((tte * 1000) \div 30, 1000) * 3) \div 10)) \div 1000
            ELSE 300
        calmar == IF max_drawdown > 0 THEN (expected_return * 252 * 1000) \div max_drawdown
                  ELSE 0
        win_prob == IF moneyness > 950 /\ moneyness < 1050 THEN 600
                    ELSE IF moneyness > 850 /\ moneyness < 1150 THEN 500
                    ELSE IF moneyness > 700 /\ moneyness < 1300 THEN 400
                    ELSE 250
        potential_win == IF moneyness > 900 THEN expected_return * 3 + 500
                         ELSE expected_return * 5 + 200
        kelly_raw == (((win_prob * potential_win) \div 1000 - (1000 - win_prob)) * 1000)
                     \div potential_win
        adjusted_kelly ==
            (((kelly_raw * (IF volume > 1000 THEN 1000
                            ELSE IF volume > 500 THEN 800 ELSE 600)) \div 1000)
             * (IF tte > 30 THEN 1000 ELSE 700)) \div 1000
        \* "Ensure reasonable bounds": 2-25% of the position, or nothing.
        kelly_fraction == IF volatility > 0 /\ entry > 0 /\ adjusted_kelly > 0
                          THEN Min(Max(adjusted_kelly, 20), 250)
                          ELSE 0
    IN  [tag |-> "some", mean_return |-> expected_return, volatility |-> volatility,
         max_drawdown |-> max_drawdown, sharpe |-> sharpe, sortino |-> sortino,
         calmar |-> calmar, kelly_fraction |-> kelly_fraction,
         composite_score |->
             calculate_dynamic_composite_score(sharpe, sortino, calmar, volatility, tte)]

\* The early return left out.
financial_metrics_unguarded(c, tte, risk_free_rate) ==
    FinancialNumbers(entry_price(c),
                     IF parse_strike_price_from_contract_key(c.contract_key) > 0
                     THEN parse_strike_price_from_contract_key(c.contract_key)
                     ELSE Max(entry_price(c) * 11, 1),
                     IF c.iv_field = "implied_volatility" THEN c.iv ELSE 300,
                     Volume(c), tte, risk_free_rate)

\* calculate_option_financial_metrics with all of its numbers: None without
\* a positive entry price; the strike is the parsed one, or
\* entry_price * 1.1.
financial_metrics(c, tte, risk_free_rate) ==
    IF entry_price(c) <= 0
    THEN [tag |-> "none", mean_return |-> 0, volatility |-> 0, max_drawdown |-> 0,
          sharpe |-> 0, sortino |-> 0, calmar |-> 0, kelly_fraction |-> 0,
          composite_score |-> 0]
    ELSE FinancialNumbers(entry_price(c),
                          IF parse_strike_price_from_contract_key(c.contract_key) > 0
                          THEN parse_strike_price_from_contract_key(c.contract_key)
                          ELSE entry_price(c) * 11,
                          IF c.iv_field = "implied_volatility" THEN c.iv ELSE 300,
                          Volume(c), tte, risk_free_rate)

calculate_dynamic_var_95(vol, mean_return, tte) ==
    LET \* volatility * (time_to_expiry / 365).sqrt(), in thousandths
        time_adjusted_vol ==
            (vol * (CHOOSE r \in 0..2000 :
                       /\ r * r <= ((tte * 1000) \div 365) * 1000
                       /\ (r + 1) * (r + 1) > ((tte * 1000) \div 365) * 1000)) \div 1000
    IN  IF vol <= 0 \/ tte <= 0 THEN 0
        ELSE IF mean_return <= 0 THEN 2 * time_adjusted_vol
        ELSE -Min(mean_return - (1645 * time_adjusted_vol) \div 1000, 0)

calculate_dynamic_expected_shortfall(vol, mean_return, tte) ==
    IF vol <= 0 \/ tte <= 0 THEN 0
    ELSE (calculate_dynamic_var_95(vol, mean_return, tte)
          * (1000 + Min(vol \div 2, 500))) \div 1000

\* The FinancialMetrics of a signal: from the metrics when there are any,
\* else all 0.0.
FinancialMetrics(metrics, tte) ==
    IF metrics.tag = "some"
    THEN [sharpe_ratio |-> metrics.sharpe,
          sortino_ratio |-> metrics.sortino,
          calmar_ratio |-> metrics.calmar,
          max_drawdown |-> metrics.max_drawdown,
          volatility |-> metrics.volatility,
          composite_score |-> metrics.composite_score,
          kelly_fraction |-> metrics.kelly_fraction,
          var_95 |-> calculate_dynamic_var_95(metrics.volatility, metrics.mean_return, tte),
          expected_shortfall |->
              calculate_dynamic_expected_shortfall(metrics.volatility,
                                                   metrics.mean_return, tte)]
    ELSE [sharpe_ratio |-> 0, sortino_ratio |-> 0, calmar_ratio |-> 0,
          max_drawdown |-> 0, volatility |-> 0, composite_score |-> 0,
          kelly_fraction |-> 0, var_95 |-> 0, expected_shortfall |-> 0]

\* classify_sector_risk tests the symbol for the substrings of its sector
\* lists, the biotech list first and then the small-biotech list.  The six
\* tickers both lists hold are kept; no ticker of the model contains
\* another biotech, energy or materials substring.
classify_sector_risk(symbol) ==
    (IF symbol \in {"ATYR", "OSCR", "RCAT", "AREC", "HYLN", "UUUU"} THEN 300 ELSE 0)
    + (IF symbol \in {"ATYR", "OSCR", "RCAT", "AREC", "HYLN", "UUUU"} THEN 200 ELSE 0)

\* assess_fundamental_risk: the risk score (the risk factors are texts).
\* The last term is estimate_market_cap(symbol, price) < 50_000_000, the
\* price in cents and the estimated shares in millions.
assess_fundamental_risk(symbol, c) ==
    Min((IF entry_price(c) < 5 THEN 300 ELSE IF entry_price(c) < 10 THEN 200 ELSE 0)
        + (IF Volume(c) < 100 THEN 250 ELSE IF Volume(c) < 500 THEN 150 ELSE 0)
        + (IF Max(c.oi, 0) < 50 THEN 200 ELSE 0)
        + classify_sector_risk(symbol)
        + (IF c.iv_field = "implied_volatility" /\ c.iv > 1000 THEN 300
           ELSE IF c.iv_field = "implied_volatility" /\ c.iv > 800 THEN 200
           ELSE 0)
        + (IF entry_price(c)
              * (IF symbol \in {"AAPL", "MSFT", "GOOGL", "AMZN", "TSLA"} THEN 15000
                 ELSE IF symbol \in {"NIO", "BAC"} THEN 2000
                 ELSE 50) < 5000
           THEN 250 ELSE 0),
        1000)

\* open_interest of a signal: the open_interest field, else the volume.
open_interest(c) == IF c.oi # -1 THEN c.oi ELSE Volume(c)

\* implied_volatility of a signal: one of the three fields, else the
\* estimate from the time to expiry and the volume.
implied_volatility(c, tte) ==
    IF c.iv_field # "none" THEN c.iv
    ELSE 200 + (tte * 100) \div 365 + Min(Volume(c) \div 10, 1000) \div 10

\* The liquidity term is (volume / 10000).min(1.0) +
\* (open_interest / 10000).min(1.0), halved; the sum is clamped to 0..1.
calculate_dynamic_risk_score(iv, mdd, volume, oi, tte) ==
    Max(0, Min((Min(iv * 2, 1000) * 4) \div 10
               + (Min(mdd * 2, 1000) * 3) \div 10
               + ((1000 - (Min(volume \div 10, 1000) + Min(oi \div 10, 1000)) \div 2) * 2)
                 \div 10
               + (1000 - Min((tte * 1000) \div 30, 1000)) \div 10,
               1000))

\* The clamp to 0..1 left out.
calculate_dynamic_confidence_raw(sentiment_score, option_score, composite_score, volume, oi) ==
    (sentiment_score * 4) \div 10
    + (Min(option_score \div 10, 1000) * 3) \div 10
    + (Min(composite_score \div 5, 1000) * 2) \div 10
    + ((Min(volume \div 10, 1000) + Min(oi \div 10, 1000)) \div 2) \div 10

calculate_dynamic_confidence(sentiment_score, option_score, composite_score, volume, oi) ==
    Max(0, Min((sentiment_score * 4) \div 10
               + (Min(option_score \div 10, 1000) * 3) \div 10
               + (Min(composite_score \div 5, 1000) * 2) \div 10
               + ((Min(volume \div 10, 1000) + Min(oi \div 10, 1000)) \div 2) \div 10,
               1000))

\* The base confidence passed on without a penalty.
unpenalised(base_confidence, fundamental_risk_score) == base_confidence

\* "Apply fundamental risk penalty to confidence".
penalised(base_confidence, fundamental_risk_score) ==
    IF fundamental_risk_score > 700 THEN (base_confidence * 3) \div 10
    ELSE IF fundamental_risk_score > 500 THEN (base_confidence * 6) \div 10
    ELSE IF fundamental_risk_score > 300 THEN (base_confidence * 8) \div 10
    ELSE base_confidence

\* The neutral band widened to 0.3-0.8.
signal_type_wide(sentiment_score, overall, contract_type) ==
    IF sentiment_score > 900 THEN "BUY_CALL"
    ELSE IF sentiment_score < 200 THEN "BUY_PUT"
    ELSE IF sentiment_score > 800 THEN "BUY_CALL"
    ELSE IF sentiment_score < 300 THEN "BUY_PUT"
    ELSE IF overall = "put" /\ contract_type \in {"short_term", "leap"}
    THEN "BUY_PUT"
    ELSE "BUY_CALL"

signal_type(sentiment_score, overall, contract_type) ==
    IF sentiment_score > 900 THEN "BUY_CALL"
    ELSE IF sentiment_score < 200 THEN "BUY_PUT"
    ELSE IF sentiment_score > 700 THEN "BUY_CALL"
    ELSE IF sentiment_score < 400 THEN "BUY_PUT"
    ELSE IF overall = "call" /\ contract_type \in {"short_term", "leap"}
    THEN "BUY_CALL"
    ELSE IF overall = "put" /\ contract_type \in {"short_term", "leap"}
    THEN "BUY_PUT"
    ELSE "BUY_CALL"

\* The signal convert_to_trading_signal returns, given the fundamental risk
\* score, the FinancialMetrics and the time to expiry it has computed.
TradingSignal(symbol, option, sentiment_score, overall, fundamental, fm, tte) ==
    [symbol |-> symbol,
     signal_type |-> signal_type(sentiment_score, overall, option.contract_type),
     confidence |->
         penalised(calculate_dynamic_confidence(sentiment_score, option.option_score,
                                                fm.composite_score,
                                                Volume(option.contract),
                                                open_interest(option.contract)),
                   fundamental),
     sentiment_score |-> sentiment_score,
     risk_score |->
         Min((calculate_dynamic_risk_score(implied_volatility(option.contract, tte),
                                           fm.max_drawdown, Volume(option.contract),
                                           open_interest(option.contract), tte) * 6) \div 10
             + (fundamental * 4) \div 10,
             1000),
     time_horizon |-> IF option.contract_type = "leap" THEN "LEAP" ELSE "SHORT_TERM",
     entry_price |-> entry_price(option.contract),
     strike_price |-> parse_strike_price_from_contract_key(option.contract.contract_key),
     volume |-> Volume(option.contract),
     open_interest |-> open_interest(option.contract),
     implied_volatility |-> implied_volatility(option.contract, tte),
     financial_metrics |-> fm]

\* convert_to_trading_signal, with the two readings of the clock it
\* depends on: the date and the risk-free rate of the hour.
convert_to_trading_signal(symbol, option, sentiment_score, overall, today, risk_free_rate) ==
    TradingSignal(symbol, option, sentiment_score, overall,
                  assess_fundamental_risk(symbol, option.contract),
                  FinancialMetrics(financial_metrics(option.contract,
                                                     time_to_expiry(option.contract, today),
                                                     risk_free_rate),
                                   time_to_expiry(option.contract, today)),
                  time_to_expiry(option.contract, today))

\* The indices of keys in the order of a stable descending sort (sort_by
\* with b.partial_cmp(a)): index n goes behind every index whose key is not
\* smaller.
RECURSIVE DescendingOrder(_, _)
DescendingOrder(keys, n) ==
    IF n = 0 THEN <<>>
    ELSE SubSeq(DescendingOrder(keys, n - 1), 1,
                Cardinality({j \in 1..(n - 1) : keys[j] >= keys[n]}))
         \o <<n>>
         \o SubSeq(DescendingOrder(keys, n - 1),
                   Cardinality({j \in 1..(n - 1) : keys[j] >= keys[n]}) + 1, n - 1)

SortedDescending(items, keys) ==
    [i \in 1..Len(items) |-> items[DescendingOrder(keys, Len(items))[i]]]

RECURSIVE Sum(_)
Sum(numbers) == IF Len(numbers) = 0 THEN 0 ELSE Head(numbers) + Sum(Tail(numbers))

RECURSIVE Flatten(_)
Flatten(lists) == IF Len(lists) = 0 THEN <<>> ELSE Head(lists) \o Flatten(Tail(lists))

\* iter().fold(0.0, f64::max)
RECURSIVE FoldMax(_)
FoldMax(numbers) ==
    IF Len(numbers) = 0 THEN 0 ELSE Max(Head(numbers), FoldMax(Tail(numbers)))

\* A kept news item with the sentiment predicted for its headline.
SentimentAnalysis(symbols, sentiment, confidence) ==
    [symbols |-> symbols, sentiment |-> sentiment, confidence |-> confidence]

\* The confidences of the sentiments with the given label, summed.
weight_by_count(sentiments, label) ==
    Cardinality({i \in 1..Len(sentiments) : sentiments[i].sentiment = label})

weight(sentiments, label) ==
    Sum([i \in 1..Len(sentiments) |->
            IF sentiments[i].sentiment = label THEN sentiments[i].confidence ELSE 0])

overall_of(positive_weight, negative_weight) ==
    IF positive_weight * 10 > negative_weight * 12 THEN "call"
    ELSE IF negative_weight * 10 > positive_weight * 12 THEN "put"
    ELSE IF positive_weight > negative_weight THEN "call"
    ELSE "put"

\* The confidence of the first news item that mentions the symbol, 0.5
\* when there is none.
sentiment_score_of(symbol, analysed) ==
    IF \E i \in 1..Len(analysed) :
          \E k \in 1..Len(analysed[i].symbols) : analysed[i].symbols[k] = symbol
    THEN analysed[CHOOSE i \in 1..Len(analysed) :
                     /\ \E k \in 1..Len(analysed[i].symbols) : analysed[i].symbols[k] = symbol
                     /\ \A h \in 1..(i - 1) :
                           \A k \in 1..Len(analysed[h].symbols) :
                               analysed[h].symbols[k] # symbol].confidence
    ELSE 500

\* Every signal the loop of perform_analysis builds, in the order of
\* options_analysis: one for each option of each symbol's analysis.
built_signals(analyses, analysed, overall, today, risk_free_rate) ==
    Flatten([i \in 1..Len(analyses) |->
                [j \in 1..Len(analyses[i].options_analysis) |->
                    convert_to_trading_signal(
                        analyses[i].symbol, analyses[i].options_analysis[j],
                        sentiment_score_of(analyses[i].symbol, analysed),
                        overall, today, risk_free_rate)]])

\* Every signal let through.
admitted_all(signal) == TRUE

\* "Filter out extremely high-risk signals".
admitted(signal) == signal.risk_score < 900 /\ signal.confidence > 100

\* The market sentiment with both comparisons inclusive.
calculate_market_summary_inclusive(ts) ==
    LET bullish_signals ==
            Cardinality({i \in 1..Len(ts) : ts[i].signal_type = "BUY_CALL"})
        bearish_signals ==
            Cardinality({i \in 1..Len(ts) : ts[i].signal_type = "BUY_PUT"})
        avg_risk == IF Len(ts) > 0
                    THEN Sum([i \in 1..Len(ts) |-> ts[i].risk_score]) \div Len(ts)
                    ELSE 500
    IN  [total_signals |-> Len(ts),
         bullish_signals |-> bullish_signals,
         bearish_signals |-> bearish_signals,
         high_confidence_signals |->
             Cardinality({i \in 1..Len(ts) : ts[i].confidence > 700}),
         overall_confidence |->
             IF Len(ts) > 0
             THEN Sum([i \in 1..Len(ts) |-> ts[i].confidence]) \div Len(ts)
             ELSE 0,
         market_sentiment |->
             IF bullish_signals >= (bearish_signals * 3) \div 2 THEN "BULLISH"
             ELSE IF bearish_signals >= (bullish_signals * 3) \div 2 THEN "BEARISH"
             ELSE "NEUTRAL",
         risk_level |-> IF avg_risk < 300 THEN "LOW"
                        ELSE IF avg_risk < 700 THEN "MEDIUM" ELSE "HIGH"]

calculate_market_summary(ts) ==
    LET bullish_signals ==
            Cardinality({i \in 1..Len(ts) : ts[i].signal_type = "BUY_CALL"})
        bearish_signals ==
            Cardinality({i \in 1..Len(ts) : ts[i].signal_type = "BUY_PUT"})
        avg_risk == IF Len(ts) > 0
                    THEN Sum([i \in 1..Len(ts) |-> ts[i].risk_score]) \div Len(ts)
                    ELSE 500
    IN  [total_signals |-> Len(ts),
         bullish_signals |-> bullish_signals,
         bearish_signals |-> bearish_signals,
         high_confidence_signals |->
             Cardinality({i \in 1..Len(ts) : ts[i].confidence > 700}),
         overall_confidence |->
             IF Len(ts) > 0
             THEN Sum([i \in 1..Len(ts) |-> ts[i].confidence]) \div Len(ts)
             ELSE 0,
         market_sentiment |->
             IF bullish_signals > (bearish_signals * 3) \div 2 THEN "BULLISH"
             ELSE IF bearish_signals > (bullish_signals * 3) \div 2 THEN "BEARISH"
             ELSE "NEUTRAL",
         risk_level |-> IF avg_risk < 300 THEN "LOW"
                        ELSE IF avg_risk < 700 THEN "MEDIUM" ELSE "HIGH"]

\* calculate_risk_metrics; the average volatility of no signal is 0.0 / 0.0,
\* which is below no threshold.  Of portfolio_var, the sum of
\* var_95 * expected_return over the signals divided by their number, the
\* model keeps whether it is a number or, for no signal, the NaN of
\* 0.0 / 0.0; of sector_exposure (calculate_dynamic_sector_exposure) the
\* number of its sectors is not kept, only that no symbol gives no entry.
calculate_risk_metrics(ts) ==
    [symbols |-> [i \in 1..Len(ts) |-> ts[i].symbol],
     portfolio_var |-> IF Len(ts) = 0 THEN "NaN" ELSE "number",
     sector_exposure |-> IF Len(ts) = 0 THEN "empty" ELSE "shares",
     max_portfolio_drawdown |->
         FoldMax([i \in 1..Len(ts) |-> ts[i].financial_metrics.max_drawdown]),
     diversification_score |-> IF Len(ts) > 1 THEN 1000 - 1000 \div Len(ts) ELSE 0,
     volatility_regime |->
         IF Len(ts) = 0 THEN "HIGH"
         ELSE IF Sum([i \in 1..Len(ts) |-> ts[i].financial_metrics.volatility])
                 \div Len(ts) < 200 THEN "LOW"
         ELSE IF Sum([i \in 1..Len(ts) |-> ts[i].financial_metrics.volatility])
                 \div Len(ts) < 400 THEN "NORMAL"
         ELSE "HIGH"]

ExecutionMetadata(unique, crypto, ts) ==
    [symbols_analyzed |-> Cardinality(unique),
     options_analyzed |-> Len(ts),
     crypto_symbols_filtered |-> Cardinality(crypto),
     api_calls_made |-> Cardinality(unique) + 1]

NoSummary ==
    [market_summary |-> calculate_market_summary(<<>>),
     risk_metrics |-> calculate_risk_metrics(<<>>),
     execution_metadata |-> ExecutionMetadata({}, {}, <<>>)]

\* No batch is on its way through the signal pipeline.
NoSignals ==
    /\ feed = [sentiment_results |-> <<>>,
               fetched |-> [s \in {} |-> NotReturned],
               today |-> <<2025, 9, 16>>,
               risk_free_rate |-> 45000]
    /\ news_analysis = <<>>
    /\ overall_sentiment = ""
    /\ signals = <<>>
    /\ trading_signals = <<>>
    /\ summary = NoSummary

(***************************************************************************)
(* perform_analysis: the news fetch and the options fan-out.               *)
(***************************************************************************)
NoFetch ==
    [pc |-> "none", attempt |-> 0, slept |-> 0, sent |-> 0,
     result |-> NotReturned]

BatchOver == batch.pc \in {"idle", "responded", "error", "panicked", "cancelled"}

\* analyze_endpoint is called: perform_analysis sends its news request.
StartBatch ==
    /\ BatchOver
    /\ batch.no < MaxBatches
    /\ batch' = [pc |-> "news", no |-> batch.no + 1, error |-> ""]
    /\ news' = FirstRequest
    /\ unique_symbols_vec' = {}
    /\ crypto_symbols' = {}
    /\ task' = [s \in {} |-> Queued]
    /\ in_progress' = {}
    /\ options_analysis' = <<>>
    /\ UNCHANGED <<now, max_concurrent_requests, OPTIONS_CACHE, fetched_at,
                   cache_vars, keys_vars, signal_vars>>

\* The symbols of the news are split into the crypto symbols, which are
\* only counted, and the others, each of which gets one future.
Fanout(all) ==
    /\ batch' = [batch EXCEPT !.pc = "fanout"]
    /\ crypto_symbols' = {s \in all : is_crypto_symbol(s)}
    /\ unique_symbols_vec' = non_crypto(all)
    /\ task' = [s \in non_crypto(all) |-> Queued]

NotInitialized == "ONNX sentiment model not initialized"

\* model_guard.as_ref() is Some.
\* The check left out.
ModelInitialized_Unchecked == TRUE

ModelInitialized == ONNX_SENTIMENT_MODEL.model = "loaded"

\* get_alpaca_news returned f.  On Ok the handler goes on, with no
\* suspension point in this model, through the sentiment section (which
\* returns an error without a model, or when the prediction fails:
\* sentiments_ok) to the deduplicated symbols and the futures of the
\* fan-out.
AfterNews(f, sentiments_ok) ==
    /\ news' = f
    /\ IF f.pc # "returned"
       THEN UNCHANGED <<batch, unique_symbols_vec, crypto_symbols, task>>
       ELSE IF ~f.result.ok
       THEN /\ batch' = [batch EXCEPT !.pc = "error",
                                      !.error = "Alpaca API error: " \o f.result.err]
            /\ UNCHANGED <<unique_symbols_vec, crypto_symbols, task>>
       ELSE IF ~ModelInitialized
       THEN /\ batch' = [batch EXCEPT !.pc = "error", !.error = NotInitialized]
            /\ UNCHANGED <<unique_symbols_vec, crypto_symbols, task>>
       ELSE IF ~sentiments_ok
       THEN /\ batch' = [batch EXCEPT !.pc = "error",
                                      !.error = "ONNX sentiment analysis failed"]
            /\ UNCHANGED <<unique_symbols_vec, crypto_symbols, task>>
       ELSE Fanout(all_symbols(news_with_symbols(f.result.payload)))

\* The news attempt in flight is answered.
NewsResponse(response, news_array, sentiments_ok) ==
    /\ batch.pc = "news"
    /\ news.pc = "request"
    /\ AfterNews(get_alpaca_news(news, response, news_array), sentiments_ok)
    /\ UNCHANGED <<now, max_concurrent_requests, in_progress, options_analysis,
                   OPTIONS_CACHE, fetched_at, cache_vars, keys_vars, signal_vars>>

NewsWake ==
    /\ batch.pc = "news"
    /\ news.pc = "sleep"
    /\ news' = AfterSleep(news)
    /\ UNCHANGED <<now, max_concurrent_requests, batch, unique_symbols_vec,
                   crypto_symbols, task, in_progress, options_analysis,
                   OPTIONS_CACHE, fetched_at, cache_vars, keys_vars, signal_vars>>

\* buffer_unordered(max_concurrent_requests) takes the next future from the
\* iterator while it holds fewer than the limit.
\* The limit compared off by one.
HasFreeSlot_OffByOne == Cardinality(in_progress) <= max_concurrent_requests

HasFreeSlot == Cardinality(in_progress) < max_concurrent_requests

\* The future of a symbol is polled for the first time: its first request
\* is sent.
StartTask(s) ==
    /\ batch.pc = "fanout"
    /\ s \in unique_symbols_vec
    /\ task[s].pc = "queued"
    /\ HasFreeSlot
    /\ task' = [task EXCEPT ![s] = FirstRequest]
    /\ in_progress' = in_progress \cup {s}
    /\ UNCHANGED <<now, max_concurrent_requests, batch, news, unique_symbols_vec,
                   crypto_symbols, options_analysis, OPTIONS_CACHE, fetched_at,
                   cache_vars, keys_vars, signal_vars>>

\* The future of s has its output: the while-let loop of perform_analysis
\* pushes it; a panic inside the future unwinds through perform_analysis and
\* drops the other futures.
Complete(s, f, out) ==
    /\ fetched_at' = IF f.result.ok THEN [fetched_at EXCEPT ![s] = now] ELSE fetched_at
    /\ IF out.tag = Panic
       THEN /\ task' = [t \in DOMAIN task |->
                          IF t = s THEN [f EXCEPT !.pc = "panicked"]
                          ELSE IF task[t].pc = "done" THEN task[t]
                          ELSE [task[t] EXCEPT !.pc = "dropped"]]
            /\ batch' = [batch EXCEPT !.pc = "panicked"]
            /\ in_progress' = {}
            /\ UNCHANGED options_analysis
       ELSE /\ task' = [task EXCEPT ![s] = [f EXCEPT !.pc = "done"]]
            /\ in_progress' = in_progress \ {s}
            /\ options_analysis' =
                  Append(options_analysis,
                         [symbol |-> out.symbol,
                          options_analysis |-> out.options_analysis,
                          error |-> out.error])
            /\ UNCHANGED batch

Advance(s, f) ==
    IF f.pc # "returned"
    THEN /\ task' = [task EXCEPT ![s] = f]
         /\ UNCHANGED <<batch, in_progress, options_analysis, fetched_at>>
    ELSE Complete(s, f, SymbolFuture(s, f.result))

\* The options attempt in flight for s is answered.  When do_request
\* returns, the future runs to its end (selection, scoring, metrics) with no
\* further suspension point.
TaskResponse(s, response, payload) ==
    /\ batch.pc = "fanout"
    /\ s \in in_progress
    /\ task[s].pc = "request"
    /\ Advance(s, do_request(task[s], response, payload))
    /\ UNCHANGED <<now, max_concurrent_requests, news, unique_symbols_vec,
                   crypto_symbols, OPTIONS_CACHE, cache_vars, keys_vars, signal_vars>>

TaskWake(s) ==
    /\ batch.pc = "fanout"
    /\ s \in in_progress
    /\ task[s].pc = "sleep"
    /\ task' = [task EXCEPT ![s] = AfterSleep(task[s])]
    /\ UNCHANGED <<now, max_concurrent_requests, batch, news, unique_symbols_vec,
                   crypto_symbols, in_progress, options_analysis, OPTIONS_CACHE,
                   fetched_at, cache_vars, keys_vars, signal_vars>>

\* The stream is exhausted: the handler builds and returns its response.
\* (With a limit of 0 buffer_unordered never polls the iterator and the
\* stream never ends.)
Respond ==
    /\ batch.pc = "fanout"
    /\ max_concurrent_requests > 0
    /\ \A s \in unique_symbols_vec : task[s].pc = "done"
    /\ batch' = [batch EXCEPT !.pc = "responded"]
    /\ UNCHANGED <<now, max_concurrent_requests, news, unique_symbols_vec,
                   crypto_symbols, task, in_progress, options_analysis,
                   OPTIONS_CACHE, fetched_at, cache_vars, keys_vars, signal_vars>>

\* The handler's future dropped with the futures it holds left running.
Cancel_detached ==
    /\ batch.pc \in {"news", "fanout"}
    /\ batch' = [batch EXCEPT !.pc = "cancelled"]
    /\ UNCHANGED <<now, max_concurrent_requests, news, unique_symbols_vec,
                   crypto_symbols, task, in_progress, options_analysis,
                   OPTIONS_CACHE, fetched_at, cache_vars, keys_vars, signal_vars>>

\* The router's TimeoutLayer fires while perform_analysis is suspended in
\* its news fetch or in stream.next(): the handler's future is dropped, and
\* with it the news request or the buffer_unordered stream and every future
\* it owns, polled or not (none is spawned).
Cancel ==
    /\ batch.pc \in {"news", "fanout"}
    /\ batch' = [batch EXCEPT !.pc = "cancelled"]
    /\ news' = IF news.pc = "returned" THEN news ELSE [news EXCEPT !.pc = "dropped"]
    /\ task' = [t \in DOMAIN task |->
                  IF task[t].pc = "done" THEN task[t]
                  ELSE [task[t] EXCEPT !.pc = "dropped"]]
    /\ in_progress' = {}
    /\ UNCHANGED <<now, max_concurrent_requests, unique_symbols_vec, crypto_symbols,
                   options_analysis, OPTIONS_CACHE, fetched_at, cache_vars, keys_vars,
                   signal_vars>>

\* Time passes.
Tick(d) ==
    /\ now + d <= MaxClock
    /\ now' = now + d
    /\ UNCHANGED <<fanout_vars, cache_vars, keys_vars, signal_vars>>

\* Time between two calls of analyze_endpoint.
Idle(d) == BatchOver /\ Tick(d)

\* The locals of a batch that has not reached its sentiment section.
NoReq ==
    [pc |-> "idle", headlines |-> <<>>, i |-> 0, cached_results |-> <<>>,
     uncached_indices |-> <<>>, uncached_sentiments |-> <<>>, j |-> 0,
     lookups |-> <<>>, sentiments |-> <<>>, error |-> ""]

NoSweep == [pc |-> "idle", now |-> 0, passed |-> {}, removed |-> {}, written |-> {}]

\* AppConfig::from_env without MAX_CONCURRENT_REQUESTS in the environment.
default_max_concurrent_requests == 10

\* No batch has run.
InitFanout ==
    /\ batch = [pc |-> "idle", no |-> 0, error |-> ""]
    /\ news = NoFetch
    /\ unique_symbols_vec = {}
    /\ crypto_symbols = {}
    /\ task = [s \in {} |-> Queued]
    /\ in_progress = {}
    /\ options_analysis = <<>>
    /\ OPTIONS_CACHE = <<>>
    /\ fetched_at = [s \in Symbols |-> -1]

\* The static ONNX_SENTIMENT_MODEL holds None until main has stored the
\* model in it.
ModelStates ==
    {[locked_by |-> Unlocked, model |-> m, model_locked_by |-> Unlocked] :
        m \in {"none", "loaded"}}

\* The cache is empty, nobody is in the sentiment section and no sweep runs.
InitCache ==
    /\ SENTIMENT_CACHE = <<>>
    /\ ONNX_SENTIMENT_MODEL \in ModelStates
    /\ req = [r \in 1..MaxBatches |-> NoReq]
    /\ sweep = NoSweep

NoContract ==
    /\ contract = <<>>
    /\ stage = "none"
    /\ outcome = <<>>

Init ==
    /\ now = 0
    /\ max_concurrent_requests \in 0..MaxConcurrent
    /\ InitFanout
    /\ InitCache
    /\ NoContract
    /\ NoSignals

Next ==
    \/ StartBatch
    \/ \E response \in Responses, news_array \in NewsPayloads, ok \in BOOLEAN :
          NewsResponse(response, news_array, ok)
    \/ NewsWake
    \/ \E s \in Symbols : StartTask(s)
    \/ \E s \in Symbols, response \in Responses, payload \in Payloads :
          TaskResponse(s, response, payload)
    \/ \E s \in Symbols : TaskWake(s)
    \/ Respond
    \/ Cancel
    \/ \E d \in ClockSteps : Idle(d)

\* The fan-out reads no clock, so Spec lets time pass between batches only.
Spec == Init /\ [][Next]_vars

(***************************************************************************)
(* SpecKeys: one snapshot entry on its way through the future of its       *)
(* symbol, as the only entry of the snapshot: selected and logged          *)
(* (get_high_open_interest_contracts), scored (analyze_ticker_options),    *)
(* and, when it was chosen, given its metrics                              *)
(* (calculate_option_financial_metrics).                                   *)
(***************************************************************************)
\* Contract keys: canonical ones, ones whose date digits are no calendar
\* date, ones whose symbol is not 4 characters long, and strings that are
\* no option key at all.
ContractKeys ==
    { KeyDec150,
      KeyJan155,
      KeyMonth14,
      CanonicalKey(<<"A", "A", "P", "L">>, 25, 13, 45, "C", 150000),
      CanonicalKey(<<"A", "A", "P", "L">>, 25, 99, 99, "P", 150000),
      CanonicalKey(<<"A", "A", "P", "L">>, 25, 9, 10, "P", 150000),
      CanonicalKey(<<"F">>, 25, 12, 19, "C", 12000),
      CanonicalKey(<<"G", "O", "O", "G", "L">>, 25, 12, 19, "C", 150000),
      CanonicalKey(<<"S", "P", "Y">>, 30, 1, 31, "P", 500),
      CanonicalKey(<<"A", "A", "P", "L">>, 26, 9, 1, "C", 99999999),
      CanonicalKey(<<"F">>, 25, 12, 19, "P", 0),
      <<"A", "B", "C", "D", "E", "F">>,
      <<"A", "B", "C">>,
      <<>> }

\* Quote shapes: [as, has_ap, ap, oi] of Entry.
QuoteShapes ==
    { <<300, TRUE, 410, -1>>,
      <<-1, FALSE, 0, -1>>,
      <<1200, TRUE, 0, 1500>>,
      <<20000, TRUE, 25, 75>>,
      <<-1, TRUE, 250, 20>>,
      <<0, FALSE, 0, 150>> }

KeyEntries ==
    {Entry(k, q[1], q[2], q[3], q[4]) : k \in ContractKeys, q \in QuoteShapes}

Step(name, tag, val) == [step |-> name, tag |-> tag, val |-> val]

\* get_high_open_interest_contracts on the one-entry snapshot.
Select ==
    /\ stage = "fetched"
    /\ \E hoi \in {SelectContracts(<<contract>>)} :
          /\ outcome' = Append(outcome, Step("select", hoi.tag, 0))
          /\ stage' = IF hoi.tag = Panic THEN "panicked" ELSE "selected"
    /\ UNCHANGED <<now, fanout_vars, cache_vars, contract, signal_vars>>

\* analyze_ticker_options scores the short_term slot and keeps it when its
\* score is positive.
Score ==
    /\ stage = "selected"
    /\ \E st \in {calculate_option_score(contract, 0)} :
          /\ outcome' = Append(outcome, Step("score", st.tag, st.val))
          /\ stage' = IF st.tag = Panic THEN "panicked"
                      ELSE IF st.val > 0 THEN "chosen"
                      ELSE "finished"
    /\ UNCHANGED <<now, fanout_vars, cache_vars, contract, signal_vars>>

\* The future attaches the financial metrics of the chosen contract.
Metrics ==
    /\ stage = "chosen"
    /\ \E fm \in {calculate_option_financial_metrics(contract)} :
          /\ outcome' = Append(outcome, Step("metrics", fm.tag, fm.strike_price))
          /\ stage' = IF fm.tag = Panic THEN "panicked" ELSE "finished"
    /\ UNCHANGED <<now, fanout_vars, cache_vars, contract, signal_vars>>

InitKeys ==
    /\ now = 0
    /\ max_concurrent_requests = default_max_concurrent_requests
    /\ InitFanout
    /\ InitCache
    /\ ModelInitialized
    /\ NoSignals
    /\ contract \in KeyEntries
    /\ stage = "fetched"
    /\ outcome = <<>>

NextKeys == Select \/ Score \/ Metrics

SpecKeys == InitKeys /\ [][NextKeys]_vars

\* C9: whatever the key and the quote shape of a snapshot entry, selection,
\* scoring and metric computation return; none of them fails hard.
C9_NoHardFailure ==
    /\ stage # "panicked"
    /\ \A i \in 1..Len(outcome) : outcome[i].tag # Panic

(***************************************************************************)
(* SpecCache: the sentiment section of perform_analysis (main.rs 361-415)  *)
(* run by concurrent batches, and cleanup_expired_cache_entries run by the *)
(* metrics endpoint.  A headline is [body, len, blank]: its text, its      *)
(* length in bytes and whether trim() leaves nothing.  A cache entry is    *)
(* [sentiment, confidence, timestamp].                                     *)
(***************************************************************************)
max_length == 10000

Headline(body, len, blank) == [body |-> body, len |-> len, blank |-> blank]

AppleBeats == Headline("Apple beats estimates", 21, FALSE)
TeslaRecalls == Headline("Tesla recalls cars", 18, FALSE)
NoHeadline == Headline("", 0, TRUE)
Oversized == Headline("Oversized", max_length + 1, FALSE)

\* The headlines of the news items with symbols, of one batch.
HeadlineLists ==
    { <<AppleBeats>>,
      <<TeslaRecalls>>,
      <<AppleBeats, TeslaRecalls>>,
      <<NoHeadline, AppleBeats>>,
      <<TeslaRecalls, Oversized>> }

CacheKey(headline) == "sentiment:" \o headline.body

\* The keys an entry can be stored under: predict_batch returns no result
\* for a batch with a headline that predict rejects.
KeySlots == {"sentiment:Apple beats estimates", "sentiment:Tesla recalls cars"}

Batches == 1..MaxBatches

\* Instant::duration_since: saturating.
\* The distance of the two instants, whichever is later.
duration_since_abs(later, earlier) ==
    IF later >= earlier THEN later - earlier ELSE earlier - later

duration_since(later, earlier) ==
    IF later >= earlier THEN later - earlier ELSE 0

\* "Check if cache entry is still valid (5 minutes)".
\* An entry of exactly the TTL's age still valid.
StillValid_Inclusive(timestamp) == duration_since(now, timestamp) <= SENTIMENT_TTL

StillValid(timestamp) == duration_since(now, timestamp) < SENTIMENT_TTL

\* OnnxSentimentModel::predict: the input validation, then the model's
\* answer, which is a function of the text; confidence in hundredths.
predict(text) ==
    IF text.blank THEN [ok |-> FALSE, err |-> "Input text cannot be empty",
                        sentiment |-> "", confidence |-> 0]
    ELSE IF text.len > max_length
    THEN [ok |-> FALSE, err |-> "Input text too long", sentiment |-> "", confidence |-> 0]
    ELSE IF text = AppleBeats
    THEN [ok |-> TRUE, err |-> "", sentiment |-> "positive", confidence |-> 93]
    ELSE [ok |-> TRUE, err |-> "", sentiment |-> "negative", confidence |-> 88]

\* predict_batch: the first error ends the loop and is the batch's result.
predict_batch(texts) ==
    IF \E i \in 1..Len(texts) : ~predict(texts[i]).ok
    THEN LET first == CHOOSE i \in 1..Len(texts) :
                         /\ ~predict(texts[i]).ok
                         /\ \A j \in 1..(i - 1) : predict(texts[j]).ok
         IN  [ok |-> FALSE, err |-> predict(texts[first]).err, results |-> <<>>]
    ELSE [ok |-> TRUE, err |-> "",
          results |-> [i \in 1..Len(texts) |->
                          [sentiment |-> predict(texts[i]).sentiment,
                           confidence |-> predict(texts[i]).confidence]]]

Range(f) == {f[x] : x \in DOMAIN f}

\* DashMap::insert.
Inserted(cache, key, entry) ==
    [k \in DOMAIN cache \cup {key} |-> IF k = key THEN entry ELSE cache[k]]

\* What remains of a DashMap when retain drops one key.
Without(cache, key) == [k \in DOMAIN cache \ {key} |-> cache[k]]

\* A batch has its headlines and comes to the sentiment section.  Batches
\* are numbered in the order in which they come.
Arrive(r, hs) ==
    /\ req[r].pc = "idle"
    /\ \A q \in 1..(r - 1) : req[q].pc # "idle"
    /\ req' = [req EXCEPT ![r] = [NoReq EXCEPT !.pc = "lock", !.headlines = hs]]
    /\ UNCHANGED <<now, fanout_vars, SENTIMENT_CACHE, ONNX_SENTIMENT_MODEL, sweep,
                   keys_vars, signal_vars>>

\* ONNX_SENTIMENT_MODEL.lock().await returns the guard; without a model in
\* it perform_analysis returns its error and drops the guard.
Lock(r) ==
    /\ req[r].pc = "lock"
    /\ ONNX_SENTIMENT_MODEL.locked_by = Unlocked
    /\ IF ModelInitialized
       THEN /\ ONNX_SENTIMENT_MODEL' = [ONNX_SENTIMENT_MODEL EXCEPT !.locked_by = r]
            /\ req' = [req EXCEPT ![r].pc = "lookup", ![r].i = 1]
       ELSE /\ req' = [req EXCEPT ![r].pc = "error", ![r].error = NotInitialized]
            /\ UNCHANGED ONNX_SENTIMENT_MODEL
    /\ UNCHANGED <<now, fanout_vars, SENTIMENT_CACHE, sweep, keys_vars, signal_vars>>

\* One turn of the "check cache first" loop, for headline i.  lookups keeps
\* what the turn saw: the entry's age (-1 without an entry) and its verdict.
LookedUp(q, key) ==
    IF key \in DOMAIN SENTIMENT_CACHE /\ StillValid(SENTIMENT_CACHE[key].timestamp)
    THEN [q EXCEPT !.i = q.i + 1,
                   !.cached_results =
                       Append(q.cached_results,
                              [i |-> q.i,
                               sentiment |-> SENTIMENT_CACHE[key].sentiment,
                               confidence |-> SENTIMENT_CACHE[key].confidence]),
                   !.lookups =
                       Append(q.lookups,
                              [hit |-> TRUE, age |-> now - SENTIMENT_CACHE[key].timestamp])]
    ELSE [q EXCEPT !.i = q.i + 1,
                   !.uncached_indices = Append(q.uncached_indices, q.i),
                   !.lookups =
                       Append(q.lookups,
                              [hit |-> FALSE,
                               age |-> IF key \in DOMAIN SENTIMENT_CACHE
                                       THEN now - SENTIMENT_CACHE[key].timestamp
                                       ELSE -1])]

Lookup(r) ==
    /\ req[r].pc = "lookup"
    /\ req[r].i <= Len(req[r].headlines)
    /\ req' = [req EXCEPT ![r] = LookedUp(req[r], CacheKey(req[r].headlines[req[r].i]))]
    /\ UNCHANGED <<now, fanout_vars, SENTIMENT_CACHE, ONNX_SENTIMENT_MODEL, sweep,
                   keys_vars, signal_vars>>

uncached_headlines(q) ==
    [n \in 1..Len(q.uncached_indices) |-> q.headlines[q.uncached_indices[n]]]

\* A failed prediction replaced by neutral results and the batch going on
\* to cache them.
Predicted_continuing(r, predicted) ==
    /\ req' = [req EXCEPT
                  ![r].pc = "insert", ![r].j = 1,
                  ![r].uncached_sentiments =
                      IF predicted.ok THEN predicted.results
                      ELSE [n \in 1..Len(req[r].uncached_indices) |->
                               [sentiment |-> "neutral", confidence |-> 50]]]
    /\ UNCHANGED ONNX_SENTIMENT_MODEL

\* predict_sentiment_batch returned predicted for the uncached headlines,
\* dropping the guard of the model's own lock: its error leaves
\* perform_analysis through `?`, dropping the guard of the global one.
Predicted(r, predicted) ==
    IF ~predicted.ok
    THEN /\ req' = [req EXCEPT ![r].pc = "error",
                               ![r].error = "ONNX sentiment analysis failed: "
                                            \o predicted.err]
         /\ ONNX_SENTIMENT_MODEL' = [ONNX_SENTIMENT_MODEL EXCEPT
                                        !.locked_by = Unlocked,
                                        !.model_locked_by = Unlocked]
    ELSE /\ req' = [req EXCEPT ![r].pc = "insert", ![r].j = 1,
                               ![r].uncached_sentiments = predicted.results]
         /\ ONNX_SENTIMENT_MODEL' = [ONNX_SENTIMENT_MODEL EXCEPT
                                        !.model_locked_by = Unlocked]

\* "Predict uncached headlines": with none, predict_sentiment_batch is not
\* called; else it waits for the model's own lock (model_arc.lock().await)
\* and calls predict_batch with both guards held.
LockModel(r) ==
    /\ req[r].pc = "lookup"
    /\ req[r].i > Len(req[r].headlines)
    /\ IF Len(req[r].uncached_indices) = 0
       THEN /\ req' = [req EXCEPT ![r].pc = "insert", ![r].j = 1]
            /\ UNCHANGED ONNX_SENTIMENT_MODEL
       ELSE /\ ONNX_SENTIMENT_MODEL.model_locked_by = Unlocked
            /\ ONNX_SENTIMENT_MODEL' = [ONNX_SENTIMENT_MODEL EXCEPT !.model_locked_by = r]
            /\ req' = [req EXCEPT ![r].pc = "predict"]
    /\ UNCHANGED <<now, fanout_vars, SENTIMENT_CACHE, sweep, keys_vars, signal_vars>>

\* model.predict_batch(texts), a synchronous call, returns.
Predict(r) ==
    /\ req[r].pc = "predict"
    /\ Predicted(r, predict_batch(uncached_headlines(req[r])))
    /\ UNCHANGED <<now, fanout_vars, SENTIMENT_CACHE, sweep, keys_vars, signal_vars>>

\* One turn of the "cache new results" loop.  sweep.written keeps the keys
\* written while a sweep runs that has not come to them yet.
Insert(r) ==
    /\ req[r].pc = "insert"
    /\ req[r].j <= Len(req[r].uncached_indices)
    /\ \E key \in {CacheKey(uncached_headlines(req[r])[req[r].j])} :
          /\ SENTIMENT_CACHE' =
                Inserted(SENTIMENT_CACHE, key,
                         [sentiment |-> req[r].uncached_sentiments[req[r].j].sentiment,
                          confidence |-> req[r].uncached_sentiments[req[r].j].confidence,
                          timestamp |-> now])
          /\ sweep' = IF sweep.pc = "sentiment" /\ key \notin sweep.passed
                      THEN [sweep EXCEPT !.written = sweep.written \cup {key}]
                      ELSE sweep
    /\ req' = [req EXCEPT ![r].j = req[r].j + 1]
    /\ UNCHANGED <<now, fanout_vars, ONNX_SENTIMENT_MODEL, keys_vars, signal_vars>>

\* The new results written to the first indices instead of their own.
all_sentiments_unindexed(q) ==
    [i \in 1..Len(q.headlines) |->
        IF i <= Len(q.uncached_sentiments) THEN q.uncached_sentiments[i]
        ELSE IF \E n \in 1..Len(q.cached_results) : q.cached_results[n].i = i
        THEN LET c == q.cached_results[CHOOSE n \in 1..Len(q.cached_results) :
                                          q.cached_results[n].i = i]
             IN  [sentiment |-> c.sentiment, confidence |-> c.confidence]
        ELSE [sentiment |-> "neutral", confidence |-> 50]]

\* "Combine cached and new results in correct order".
all_sentiments(q) ==
    [i \in 1..Len(q.headlines) |->
        IF \E n \in 1..Len(q.uncached_indices) : q.uncached_indices[n] = i
        THEN q.uncached_sentiments[CHOOSE n \in 1..Len(q.uncached_indices) :
                                       q.uncached_indices[n] = i]
        ELSE IF \E n \in 1..Len(q.cached_results) : q.cached_results[n].i = i
        THEN LET c == q.cached_results[CHOOSE n \in 1..Len(q.cached_results) :
                                          q.cached_results[n].i = i]
             IN  [sentiment |-> c.sentiment, confidence |-> c.confidence]
        ELSE [sentiment |-> "neutral", confidence |-> 50]]

\* The results merged with the guard of the global lock kept.
Merge_keeping_guard(r) ==
    /\ req[r].pc = "insert"
    /\ req[r].j > Len(req[r].uncached_indices)
    /\ req' = [req EXCEPT ![r].pc = "analysed", ![r].sentiments = all_sentiments(req[r])]
    /\ UNCHANGED <<now, fanout_vars, SENTIMENT_CACHE, ONNX_SENTIMENT_MODEL, sweep,
                   keys_vars, signal_vars>>

\* The block ends: the results are merged and the guard is dropped.
Merge(r) ==
    /\ req[r].pc = "insert"
    /\ req[r].j > Len(req[r].uncached_indices)
    /\ req' = [req EXCEPT ![r].pc = "analysed", ![r].sentiments = all_sentiments(req[r])]
    /\ ONNX_SENTIMENT_MODEL' = [ONNX_SENTIMENT_MODEL EXCEPT !.locked_by = Unlocked]
    /\ UNCHANGED <<now, fanout_vars, SENTIMENT_CACHE, sweep, keys_vars, signal_vars>>

\* A request of the health endpoint comes: it waits for the global lock.
HealthRequest(r) ==
    /\ req[r].pc = "idle"
    /\ \A q \in 1..(r - 1) : req[q].pc # "idle"
    /\ req' = [req EXCEPT ![r] = [NoReq EXCEPT !.pc = "health"]]
    /\ UNCHANGED <<now, fanout_vars, SENTIMENT_CACHE, ONNX_SENTIMENT_MODEL, sweep,
                   keys_vars, signal_vars>>

\* health_check: ONNX_SENTIMENT_MODEL.lock().await returns the guard; then
\* the status is read from it and the guard is dropped with the block.
health_check(r) ==
    /\ \/ /\ req[r].pc = "health"
          /\ ONNX_SENTIMENT_MODEL.locked_by = Unlocked
          /\ ONNX_SENTIMENT_MODEL' = [ONNX_SENTIMENT_MODEL EXCEPT !.locked_by = r]
          /\ req' = [req EXCEPT ![r].pc = "health_guard"]
       \/ /\ req[r].pc = "health_guard"
          /\ ONNX_SENTIMENT_MODEL' = [ONNX_SENTIMENT_MODEL EXCEPT !.locked_by = Unlocked]
          /\ req' = [req EXCEPT ![r].pc = IF ModelInitialized THEN "healthy"
                                          ELSE "degraded"]
    /\ UNCHANGED <<now, fanout_vars, SENTIMENT_CACHE, sweep, keys_vars, signal_vars>>

\* cleanup_expired_cache_entries takes its reference time.
SweepStart ==
    /\ sweep.pc = "idle"
    /\ sweep' = [NoSweep EXCEPT !.pc = "sentiment", !.now = now]
    /\ UNCHANGED <<now, fanout_vars, SENTIMENT_CACHE, ONNX_SENTIMENT_MODEL, req,
                   keys_vars, signal_vars>>

\* The closure of SENTIMENT_CACHE.retain.
Retained(timestamp) == duration_since(sweep.now, timestamp) < SENTIMENT_TTL

\* SENTIMENT_CACHE.retain comes to the slot of key, in whatever order the
\* shards hold the keys.  sweep.removed keeps what the sweep removed.
SweepVisit(key) ==
    /\ sweep.pc = "sentiment"
    /\ key \in KeySlots \ sweep.passed
    /\ IF key \in DOMAIN SENTIMENT_CACHE /\ ~Retained(SENTIMENT_CACHE[key].timestamp)
       THEN /\ SENTIMENT_CACHE' = Without(SENTIMENT_CACHE, key)
            /\ sweep' = [sweep EXCEPT
                            !.passed = sweep.passed \cup {key},
                            !.removed = sweep.removed \cup
                               {[key |-> key,
                                 timestamp |-> SENTIMENT_CACHE[key].timestamp]}]
       ELSE /\ sweep' = [sweep EXCEPT !.passed = sweep.passed \cup {key}]
            /\ UNCHANGED SENTIMENT_CACHE
    /\ UNCHANGED <<now, fanout_vars, ONNX_SENTIMENT_MODEL, req, keys_vars, signal_vars>>

\* OPTIONS_CACHE.retain, over a map nothing is ever put into.
SweepOptions ==
    /\ sweep.pc = "sentiment"
    /\ sweep.passed = KeySlots
    /\ sweep' = [sweep EXCEPT !.pc = "options"]
    /\ OPTIONS_CACHE' = [k \in {k \in DOMAIN OPTIONS_CACHE :
                                   duration_since(sweep.now, OPTIONS_CACHE[k].timestamp)
                                      < OPTIONS_TTL} |-> OPTIONS_CACHE[k]]
    /\ UNCHANGED <<now, max_concurrent_requests, batch, news, unique_symbols_vec,
                   crypto_symbols, task, in_progress, options_analysis, fetched_at,
                   SENTIMENT_CACHE, ONNX_SENTIMENT_MODEL, req, keys_vars, signal_vars>>

\* cleanup_expired_cache_entries returns.
SweepEnd ==
    /\ sweep.pc = "options"
    /\ sweep' = NoSweep
    /\ UNCHANGED <<now, fanout_vars, SENTIMENT_CACHE, ONNX_SENTIMENT_MODEL, req,
                   keys_vars, signal_vars>>

InitSentiments ==
    /\ now = 0
    /\ max_concurrent_requests = default_max_concurrent_requests
    /\ InitFanout
    /\ InitCache
    /\ NoContract
    /\ NoSignals

NextCache ==
    \/ \E r \in Batches, hs \in HeadlineLists : Arrive(r, hs)
    \/ \E r \in Batches : Lock(r) \/ Lookup(r) \/ LockModel(r) \/ Predict(r)
    \/ \E r \in Batches : Insert(r) \/ Merge(r)
    \/ \E r \in Batches : HealthRequest(r) \/ health_check(r)
    \/ SweepStart
    \/ \E key \in KeySlots : SweepVisit(key)
    \/ SweepOptions
    \/ SweepEnd
    \/ \E d \in ClockSteps : Tick(d)

SpecCache == InitSentiments /\ [][NextCache]_vars

\* SpecCache with the progress the runtime gives: a task that can run does
\* run (its lookups, inserts, the merge, taking the model's own lock), and a
\* task waiting for the global lock gets it when it is free often enough,
\* tokio's Mutex serving its waiters in the order they came.  Nothing makes
\* model.predict_batch return, a request come or the sweep run.
SpecCacheFair ==
    /\ SpecCache
    /\ \A r \in Batches :
          /\ WF_vars(Lookup(r) \/ LockModel(r) \/ Insert(r) \/ Merge(r))
          /\ SF_vars(Lock(r))
          /\ SF_vars(health_check(r))

\* C5: a lookup never takes an entry whose age has reached SENTIMENT_TTL as
\* a hit; such a headline, like every miss, goes to the uncached headlines
\* and is predicted again.
C5_ExpiredIsMiss ==
    \A r \in Batches :
        \A i \in 1..Len(req[r].lookups) :
            /\ req[r].lookups[i].hit =>
                  /\ req[r].lookups[i].age >= 0
                  /\ req[r].lookups[i].age < SENTIMENT_TTL
                  /\ i \notin Range(req[r].uncached_indices)
            /\ req[r].lookups[i].age >= SENTIMENT_TTL =>
                  /\ ~req[r].lookups[i].hit
                  /\ i \in Range(req[r].uncached_indices)
                  /\ req[r].pc = "analysed" =>
                        /\ req[r].sentiments[i].sentiment = predict(req[r].headlines[i]).sentiment
                        /\ CacheKey(req[r].headlines[i]) \in DOMAIN SENTIMENT_CACHE =>
                              SENTIMENT_CACHE[CacheKey(req[r].headlines[i])].timestamp > 0

\* A batch has finished its sentiment section after its lookup found an
\* entry of exactly the TTL's age and missed.
C5_Witness ==
    \E r \in Batches :
        /\ req[r].pc = "analysed"
        /\ \E i \in 1..Len(req[r].lookups) :
              /\ req[r].lookups[i].age = SENTIMENT_TTL
              /\ ~req[r].lookups[i].hit

\* C7: a sweep removes an entry only if its age at the sweep's reference
\* time is at least the TTL, so never one written after that time, and
\* when it has passed all slots no entry that old at the reference time is
\* left.
C7_SweepRemovesExpiredOnly ==
    /\ \A x \in sweep.removed : sweep.now - x.timestamp >= SENTIMENT_TTL
    /\ \A key \in sweep.written :
          \A x \in sweep.removed : x.key = key => x.timestamp < sweep.now
    /\ sweep.pc = "options" =>
          \A key \in DOMAIN SENTIMENT_CACHE :
              sweep.now - SENTIMENT_CACHE[key].timestamp < SENTIMENT_TTL

\* A sweep has passed all slots: it removed an expired entry and left one
\* that a batch wrote, after the reference time, ahead of the sweep.
C7_Witness ==
    /\ sweep.pc = "options"
    /\ sweep.removed # {}
    /\ \E key \in sweep.written :
          /\ key \in DOMAIN SENTIMENT_CACHE
          /\ SENTIMENT_CACHE[key].timestamp >= sweep.now

\* C8: no batch waits for the model lock while a batch with other headlines
\* holds it for its lookups, prediction and inserts.
C8_NoGlobalLock ==
    \A r \in Batches, h \in Batches :
        ~ /\ req[r].pc = "lock"
          /\ ONNX_SENTIMENT_MODEL.locked_by = h
          /\ req[h].pc \in {"lookup", "insert"}
          /\ Range(req[r].headlines) \cap Range(req[h].headlines) = {}

\* C10: a headline that predict rejects does not make the batch fail.
C10_RejectedPerItem ==
    \A r \in Batches :
        (\E i \in 1..Len(req[r].headlines) : predict(req[r].headlines[i]).ok)
        => req[r].error \in {"", NotInitialized}

(***************************************************************************)
(* Properties of the fetches and of the fan-out.                           *)
(***************************************************************************)
(***************************************************************************)
(* The inputs of SpecSignals.                                              *)
(***************************************************************************)

\* The news of a batch with their sentiments, in the order of the news
\* array: XYZ in two headlines with the confidences 0.95 and 0.40 besides a
\* third item, or AAPL in a headline of a confidence on either side of or on
\* a threshold of convert_to_trading_signal besides XYZ in one that decides
\* the overall sentiment.
NewsFeeds ==
    {<<SentimentAnalysis(<<"XYZ">>, "negative", 400),
       third,
       SentimentAnalysis(<<"XYZ">>, "positive", 950)>> :
        third \in {SentimentAnalysis(<<"AAPL", "BTC">>, "neutral", 600),
                   SentimentAnalysis(<<"AAPL", "BTC">>, "negative", 990)}}
    \cup {<<SentimentAnalysis(<<"AAPL">>, "neutral", confidence),
            SentimentAnalysis(<<"XYZ">>, sentiment, 600)>> :
             confidence \in {50, 150, 300, 400, 500, 700, 800, 950}, sentiment \in {"positive", "negative"}}

\* What the options fetch of AAPL may have returned: two or three
\* contracts of different volumes, two of equal scores (0.5 + 1.0 + 1.0 for the one in its best
\* days, 0.5 + 2.0 for the cheaper one), a penny contract of extreme
\* volatility, a contract without an ask price or with one that is 0 or
\* negative, contracts with a volatility field of either name and of either
\* sign, a lone contract whose option score is negative (no ask size, few
\* open contracts) or zero, an empty snapshot, or an error.
AaplFetches ==
    {Ok(<<Contract(KeyJan155, 300, TRUE, 410, -1, "none", 0),
          Contract(KeyDec150, 1200, TRUE, 250, -1, "none", 0)>>),
     Ok(<<Contract(KeyJan155, 300, TRUE, 410, -1, "none", 0),
          Contract(CanonicalKey(<<"A", "A", "P", "L">>, 27, 1, 15, "C", 160000),
                   700, TRUE, 500, -1, "none", 0),
          Contract(KeyDec150, 1200, TRUE, 250, -1, "none", 0)>>),
     Ok(<<Contract(KeyDec150, 500, TRUE, 100, -1, "none", 0),
          Contract(KeyJan155, 500, TRUE, 50, -1, "none", 0)>>),
     Ok(<<Contract(KeyDec150, 50, TRUE, 3, -1, "implied_volatility", 2000)>>),
     Ok(<<Contract(KeyDec150, 800, FALSE, 0, -1, "none", 0)>>),
     Ok(<<Contract(KeyDec150, 800, TRUE, 0, -1, "none", 0)>>),
     Ok(<<Contract(KeyDec150, 800, TRUE, -50, -1, "none", 0)>>),
     Ok(<<Contract(CanonicalKey(<<"A", "A", "P", "L">>, 27, 1, 15, "C", 160000), 2000, TRUE, 500, 120, "implied_volatility", 100)>>),
     Ok(<<Contract(KeyDec150, 6000, TRUE, 150, 1500, "impliedVolatility", 900)>>),
     Ok(<<Contract(KeyJan155, 700, TRUE, 300, -1, "implied_volatility", -300)>>),
     Ok(<<Contract(KeyJan155, 0, TRUE, 300, 20, "none", 0)>>),
     Ok(<<Contract(KeyJan155, 0, FALSE, 0, 75, "none", 0)>>),
     Ok(<<>>),
     Err("Failed to fetch options after all retry attempts")}

\* What the options fetch of XYZ may have returned: two contracts with the
\* volumes 300 and 1200, at the same price, with the smaller one much
\* cheaper, or both penny contracts of extreme volatility.
XyzFetches ==
    LET XyzDec50 == CanonicalKey(<<"X", "Y", "Z">>, 25, 12, 19, "C", 50000)
        XyzJan55 == CanonicalKey(<<"X", "Y", "Z">>, 26, 1, 16, "C", 55000)
    IN
    {Ok(<<Contract(XyzJan55, 300, TRUE, 250, -1, "none", 0),
          Contract(XyzDec50, 1200, TRUE, 250, -1, "none", 0)>>),
     Ok(<<Contract(XyzJan55, 300, TRUE, 25, -1, "none", 0),
          Contract(XyzDec50, 1200, TRUE, 400, -1, "none", 0)>>),
     Ok(<<Contract(XyzJan55, 300, TRUE, 3, -1, "implied_volatility", 2000),
          Contract(XyzDec50, 1200, TRUE, 3, -1, "implied_volatility", 2000)>>)}

\* The sentiments are in: perform_analysis sorts the news analysis, sums up
\* the overall sentiment and splits the symbols.
Aggregate ==
    /\ batch.pc = "sentiments"
    /\ batch' = [batch EXCEPT !.pc = "stream"]
    /\ news_analysis' =
          SortedDescending(feed.sentiment_results,
                           [i \in 1..Len(feed.sentiment_results) |->
                               feed.sentiment_results[i].confidence])
    /\ overall_sentiment' = overall_of(weight(feed.sentiment_results, "positive"),
                                       weight(feed.sentiment_results, "negative"))
    /\ crypto_symbols' =
          {s \in all_symbols([i \in 1..Len(feed.sentiment_results) |->
                                 feed.sentiment_results[i].symbols]) : is_crypto_symbol(s)}
    /\ unique_symbols_vec' =
          non_crypto(all_symbols([i \in 1..Len(feed.sentiment_results) |->
                                     feed.sentiment_results[i].symbols]))
    /\ UNCHANGED <<now, max_concurrent_requests, news, task, in_progress,
                   options_analysis, OPTIONS_CACHE, fetched_at, cache_vars, keys_vars,
                   feed, signals, trading_signals, summary>>

\* The outputs of the futures are collected: a panic of one of them ends the
\* handler, else each becomes an entry of options_analysis.
Collected(outputs) ==
    IF \E i \in 1..Len(outputs) : outputs[i].tag = Panic
    THEN /\ batch' = [batch EXCEPT !.pc = "panicked"]
         /\ UNCHANGED options_analysis
    ELSE /\ batch' = [batch EXCEPT !.pc = "collected"]
         /\ options_analysis' = [i \in 1..Len(outputs) |-> EntryOf(outputs[i])]

\* The stream of the futures is exhausted: every symbol's analysis has been
\* pushed, in the order the futures completed in (the fan-out itself is
\* Spec's).
Stream(order) ==
    /\ batch.pc = "stream"
    /\ Collected([i \in 1..Len(order) |->
                     SymbolFuture(order[i], feed.fetched[order[i]])])
    /\ UNCHANGED <<now, max_concurrent_requests, news, unique_symbols_vec,
                   crypto_symbols, task, in_progress, OPTIONS_CACHE, fetched_at,
                   cache_vars, keys_vars, signal_vars>>

\* options_analysis is sorted by the highest option score of each symbol.
SortOptions ==
    /\ batch.pc = "collected"
    /\ batch' = [batch EXCEPT !.pc = "sorted"]
    /\ options_analysis' =
          SortedDescending(
              options_analysis,
              [i \in 1..Len(options_analysis) |->
                  FoldMax([j \in 1..Len(options_analysis[i].options_analysis) |->
                              options_analysis[i].options_analysis[j].option_score])])
    /\ UNCHANGED <<now, max_concurrent_requests, news, unique_symbols_vec,
                   crypto_symbols, task, in_progress, OPTIONS_CACHE, fetched_at,
                   cache_vars, keys_vars, signal_vars>>

\* The loop over options_analysis: every option becomes a signal, the
\* admitted ones are pushed, and trading_signals is sorted by confidence.
Filtered(built) ==
    /\ signals' = built
    /\ trading_signals' =
          SortedDescending(SelectSeq(built, admitted),
                           [i \in 1..Len(SelectSeq(built, admitted)) |->
                               SelectSeq(built, admitted)[i].confidence])

Convert ==
    /\ batch.pc = "sorted"
    /\ batch' = [batch EXCEPT !.pc = "signals"]
    /\ Filtered(built_signals(options_analysis, news_analysis, overall_sentiment,
                              feed.today, feed.risk_free_rate))
    /\ UNCHANGED <<now, max_concurrent_requests, news, unique_symbols_vec,
                   crypto_symbols, task, in_progress, options_analysis, OPTIONS_CACHE,
                   fetched_at, cache_vars, keys_vars, feed, news_analysis,
                   overall_sentiment, summary>>

\* The summaries and the metadata are computed and the response returned.
Summarise ==
    /\ batch.pc = "signals"
    /\ batch' = [batch EXCEPT !.pc = "responded"]
    /\ summary' = [market_summary |-> calculate_market_summary(trading_signals),
                   risk_metrics |-> calculate_risk_metrics(trading_signals),
                   execution_metadata |->
                       ExecutionMetadata(unique_symbols_vec, crypto_symbols,
                                         trading_signals)]
    /\ UNCHANGED <<now, max_concurrent_requests, news, unique_symbols_vec,
                   crypto_symbols, task, in_progress, options_analysis, OPTIONS_CACHE,
                   fetched_at, cache_vars, keys_vars, feed, news_analysis,
                   overall_sentiment, signals, trading_signals>>

\* A batch whose sentiment section has returned, with what its fetches
\* will return and what chrono::Utc::now() reads when the signals are built:
\* the date, and the risk-free rate get_dynamic_risk_free_rate derives from
\* the time of day (millionths per year).
InitSignals ==
    /\ now = 0
    /\ max_concurrent_requests = default_max_concurrent_requests
    /\ batch = [pc |-> "sentiments", no |-> 1, error |-> ""]
    /\ news = NoFetch
    /\ unique_symbols_vec = {}
    /\ crypto_symbols = {}
    /\ task = [s \in {} |-> Queued]
    /\ in_progress = {}
    /\ options_analysis = <<>>
    /\ OPTIONS_CACHE = <<>>
    /\ fetched_at = [s \in Symbols |-> -1]
    /\ InitCache
    /\ ModelInitialized
    /\ NoContract
    /\ \E sentiment_results \in NewsFeeds, aapl \in AaplFetches, xyz \in XyzFetches,
          today \in {<<2025, 9, 16>>, <<2025, 12, 1>>, <<2026, 2, 1>>},
          risk_free_rate \in {45000, 54999} :
          feed = [sentiment_results |-> sentiment_results,
                  fetched |-> [s \in {"AAPL", "XYZ"} |->
                                  IF s = "AAPL" THEN aapl ELSE xyz],
                  today |-> today,
                  risk_free_rate |-> risk_free_rate]
    /\ news_analysis = <<>>
    /\ overall_sentiment = ""
    /\ signals = <<>>
    /\ trading_signals = <<>>
    /\ summary = NoSummary

NextSignals ==
    \/ Aggregate
    \/ \E order \in [1..Cardinality(unique_symbols_vec) -> unique_symbols_vec] :
          \* the futures complete in any order
          /\ {order[i] : i \in 1..Len(order)} = unique_symbols_vec
          /\ Stream(order)
    \/ SortOptions
    \/ Convert
    \/ Summarise

SpecSignals == InitSignals /\ [][NextSignals]_vars

\* The fetches of the running batch: the news fetch and the options fetches.
Fetches == {news} \cup {task[s] : s \in DOMAIN task}

InFlight == {s \in DOMAIN task : task[s].pc \in {"request", "sleep"}}

Exhausted(result) ==
    result.err \in {"Failed to fetch news after all retry attempts",
                      "Failed to fetch options after all retry attempts"}

\* The seconds of backoff a fetch has behind it when it sends attempt
\* number sent: 0, 2, 2 + 4.
Backoff(sent) == IF sent <= 1 THEN 0 ELSE IF sent = 2 THEN 2 ELSE 6

EntriesOf(s) == {i \in 1..Len(options_analysis) : options_analysis[i].symbol = s}

\* C1: during the fan-out the number of per-symbol option fetches in flight
\* never exceeds max_concurrent_requests.
C1_ConcurrencyBound ==
    /\ Cardinality(InFlight) <= max_concurrent_requests
    /\ batch.pc = "fanout" => InFlight = in_progress

\* With a limit of 1 and two symbols, the second symbol's fetch is in flight
\* after the first one has completed.
C1_Witness ==
    /\ batch.pc = "fanout"
    /\ max_concurrent_requests = 1
    /\ Cardinality(unique_symbols_vec) = 2
    /\ \E s \in unique_symbols_vec, t \in unique_symbols_vec :
          task[s].pc = "done" /\ task[t].pc = "request"

\* C2: a symbol whose options fetch failed contributes one entry with an
\* empty options_analysis and its error, every completed symbol's entry is
\* the one its own fetch result gives, no failed fetch aborts the batch or
\* takes another future out of the buffer.
C2_FailureIsolated ==
    /\ \A s \in DOMAIN task :
          /\ task[s].pc = "done" =>
                /\ Cardinality(EntriesOf(s)) = 1
                /\ \A i \in EntriesOf(s) :
                      /\ options_analysis[i] = EntryOf(SymbolFuture(s, task[s].result))
                      /\ ~task[s].result.ok =>
                            options_analysis[i] =
                               [symbol |-> s, options_analysis |-> <<>>,
                                error |-> <<task[s].result.err>>]
          /\ task[s].pc # "done" => EntriesOf(s) = {}
          /\ task[s].pc = "panicked" => task[s].result.ok
          /\ task[s].pc = "dropped" => batch.pc \in {"panicked", "cancelled"}
    /\ batch.pc = "panicked" => \E s \in DOMAIN task : task[s].pc = "panicked"
    /\ batch.pc = "responded" => \A s \in unique_symbols_vec : task[s].pc = "done"

\* A batch has returned its response with one symbol that used up its
\* attempts and another one with a non-empty analysis.
C2_Witness ==
    /\ batch.pc = "responded"
    /\ \E s \in unique_symbols_vec, t \in unique_symbols_vec :
          /\ Exhausted(task[s].result)
          /\ task[t].result.ok
          /\ \E i \in EntriesOf(t) : Len(options_analysis[i].options_analysis) > 0

\* C3: a fetch sends at most 3 attempts, has slept 2 s before the second and
\* 2 s + 4 s before the third, returns on its first success with no further
\* attempt, and returns its error after the third non-success without
\* sleeping again.
C3_RetrySchedule ==
    \A f \in Fetches :
        /\ f.sent <= max_attempts
        /\ f.slept = Backoff(f.sent)
        /\ f.pc = "request" => f.sent = f.attempt + 1 /\ f.result = NotReturned
        /\ f.pc = "sleep" => f.sent = f.attempt /\ f.sent < max_attempts
        /\ f.result.ok => f.sent = f.attempt + 1
        /\ Exhausted(f.result) => f.sent = max_attempts /\ f.attempt = max_attempts

\* An options fetch returned its payload from the third attempt, with
\* 2 s + 4 s of sleep behind it.
C3_Witness ==
    \E s \in DOMAIN task :
        /\ task[s].pc = "done"
        /\ task[s].result.ok
        /\ task[s].sent = 3
        /\ task[s].slept = 6

\* C4: a fetch surfaces a timeout, a request error or a non-success status
\* as its error only after all its attempts are used up.
C4_ErrorsAfterAllAttempts ==
    \A f \in Fetches :
        (\/ f.result.err \in {"Request timeout", "alpaca req error"}
         \/ Exhausted(f.result))
        => f.sent = max_attempts

\* C6: no options fetch is sent for a symbol whose snapshot arrived less
\* than OPTIONS_TTL seconds ago.
C6_ServedFromCache ==
    \A s \in DOMAIN task :
        task[s].pc = "request" =>
            \/ fetched_at[s] = -1
            \/ now - fetched_at[s] >= OPTIONS_TTL

\* The symbols the news of the running batch mention.
Mentioned ==
    {s \in Symbols :
        \E i \in 1..Len(news.result.payload) :
            \E k \in 1..Len(news.result.payload[i]) : news.result.payload[i][k] = s}

\* C11: a batch that runs while the sentiment model is not initialized ends
\* with the one error "ONNX sentiment model not initialized", unless it is
\* cancelled in its news fetch: it has no future and no options fetch, no
\* entry for a signal to be built from, and it leaves the sentiment cache
\* as it was.
C11_ModelUnavailable ==
    (batch.pc # "idle" /\ ~(ONNX_SENTIMENT_MODEL.model = "loaded")) =>
        /\ batch.pc \in {"news", "error", "cancelled"}
        /\ batch.pc = "cancelled" => news.pc = "dropped"
        /\ (batch.pc = "error" /\ news.result.ok) => batch.error = NotInitialized
        /\ DOMAIN task = {}
        /\ in_progress = {}
        /\ options_analysis = <<>>
        /\ SENTIMENT_CACHE = <<>>

\* The news arrived with symbols in them, and the batch failed for the
\* missing model.
C11_Witness ==
    /\ batch.pc = "error"
    /\ batch.error = NotInitialized
    /\ ONNX_SENTIMENT_MODEL.model = "none"
    /\ Mentioned # {}

\* C12: of the two candidate slots of a symbol, the analysis holds at most
\* one, the one with the higher option_score, and the short_term one when
\* the two scores are equal.
C12_HigherScoreTiesShortTerm ==
    \A i \in 1..Len(options_analysis) :
        LET hoi == get_high_open_interest_contracts(
                       feed.fetched[options_analysis[i].symbol])
            items == options_analysis[i].options_analysis
        IN  (Len(hoi.short_term) = 1 /\ Len(hoi.leap) = 1) =>
                /\ Len(items) <= 1
                /\ Len(items) = 1 =>
                       items[1].contract_type =
                           IF SlotScore(hoi.short_term, 0).val
                                 >= SlotScore(hoi.leap, 0).val
                           THEN "short_term" ELSE "leap"

\* C13: trading_signals holds at most one signal for a symbol.
C13_OneSignalPerSymbol ==
    \A i \in 1..Len(trading_signals) :
        \A j \in 1..Len(trading_signals) :
            trading_signals[i].symbol = trading_signals[j].symbol => i = j

\* The batch responded with a signal for each of two symbols, one of them
\* XYZ, which two of the three headlines mention and whose snapshot holds
\* two contracts.
C13_Witness ==
    /\ batch.pc = "responded"
    /\ Len(news_analysis) = 3
    /\ Cardinality({i \in 1..Len(news_analysis) :
                       \E k \in 1..Len(news_analysis[i].symbols) :
                           news_analysis[i].symbols[k] = "XYZ"}) = 2
    /\ feed.fetched["XYZ"].ok
    /\ Len(feed.fetched["XYZ"].payload) = 2
    /\ Len(trading_signals) = 2
    /\ \E i \in 1..2 : trading_signals[i].symbol = "XYZ"

\* C14: of a snapshot the selector fills the short_term slot with the
\* entry of the highest volume proxy and the leap slot with the one of the
\* second highest, each entry with its own key; the leap slot is absent for
\* a snapshot of one contract and both are for an empty one; and what the
\* analysis of the symbol holds comes from these slots.
C14_TopTwoByVolume ==
    \A s \in DOMAIN feed.fetched :
        feed.fetched[s].ok =>
            LET payload == feed.fetched[s].payload
                hoi == get_high_open_interest_contracts(feed.fetched[s])
            IN  /\ hoi.tag = "result"
                /\ Len(payload) = 0 => hoi.short_term = <<>> /\ hoi.leap = <<>>
                /\ Len(payload) = 1 =>
                       hoi.short_term = <<payload[1]>> /\ hoi.leap = <<>>
                /\ Len(payload) >= 2 =>
                       \E i \in 1..Len(payload) :
                           \E j \in 1..Len(payload) \ {i} :
                               /\ hoi.short_term = <<payload[i]>>
                               /\ hoi.leap = <<payload[j]>>
                               /\ Volume(payload[i]) >= Volume(payload[j])
                               /\ \A k \in 1..Len(payload) \ {i, j} :
                                      Volume(payload[j]) >= Volume(payload[k])
                /\ \A e \in 1..Len(options_analysis) :
                       options_analysis[e].symbol = s =>
                           \A o \in 1..Len(options_analysis[e].options_analysis) :
                               <<options_analysis[e].options_analysis[o].contract>>
                                   = IF options_analysis[e].options_analysis[o].contract_type
                                           = "short_term"
                                     THEN hoi.short_term ELSE hoi.leap

\* The snapshot of AAPL held three contracts, the one of the highest volume
\* last: it is the one the analysis holds, as the short_term slot, and the
\* contract of the lowest volume is in no slot.
C14_Witness ==
    /\ batch.pc = "collected"
    /\ feed.fetched["AAPL"].ok
    /\ Len(feed.fetched["AAPL"].payload) = 3
    /\ Volume(feed.fetched["AAPL"].payload[1]) = 300
    /\ get_high_open_interest_contracts(feed.fetched["AAPL"]).short_term
          = <<feed.fetched["AAPL"].payload[3]>>
    /\ get_high_open_interest_contracts(feed.fetched["AAPL"]).leap
          = <<feed.fetched["AAPL"].payload[2]>>
    /\ \E e \in 1..Len(options_analysis) :
          /\ options_analysis[e].symbol = "AAPL"
          /\ Len(options_analysis[e].options_analysis) = 1
          /\ options_analysis[e].options_analysis[1].contract_type = "short_term"
          /\ Volume(options_analysis[e].options_analysis[1].contract) = 1200

\* C15: the signal_type of every signal built is BUY_CALL for a sentiment
\* score above 0.7, BUY_PUT for one below 0.4, and in between the overall
\* direction of the batch: BUY_CALL for call, BUY_PUT for put.
C15_SignalType ==
    \A i \in 1..Len(signals) :
        /\ signals[i].signal_type \in {"BUY_CALL", "BUY_PUT"}
        /\ signals[i].signal_type =
               IF signals[i].sentiment_score > 700 THEN "BUY_CALL"
               ELSE IF signals[i].sentiment_score < 400 THEN "BUY_PUT"
               ELSE IF overall_sentiment = "call" THEN "BUY_CALL"
               ELSE "BUY_PUT"

\* A signal of sentiment score 0.7 exactly, in a batch that is bearish
\* overall: it is a BUY_PUT.
C15_Witness ==
    /\ batch.pc = "responded"
    /\ overall_sentiment = "put"
    /\ \E i \in 1..Len(signals) :
          /\ signals[i].sentiment_score = 700
          /\ signals[i].signal_type = "BUY_PUT"

\* C16: every signal of the response has a risk_score below 0.9 and a
\* confidence above 0.1; the response holds exactly the signals built that
\* do, and the counts of the market summary, the symbols of the risk
\* metrics and options_analyzed are those of these signals.
C16_FilteredBeforeAggregation ==
    /\ \A i \in 1..Len(trading_signals) :
          trading_signals[i].risk_score < 900 /\ trading_signals[i].confidence > 100
    /\ batch.pc \in {"signals", "responded"} =>
          /\ {trading_signals[i] : i \in 1..Len(trading_signals)}
                = {signals[i] : i \in {k \in 1..Len(signals) :
                                          /\ signals[k].risk_score < 900
                                          /\ signals[k].confidence > 100}}
          /\ Len(trading_signals)
                = Cardinality({k \in 1..Len(signals) :
                                  /\ signals[k].risk_score < 900
                                  /\ signals[k].confidence > 100})
    /\ batch.pc = "responded" =>
          /\ summary.market_summary.total_signals = Len(trading_signals)
          /\ summary.market_summary.bullish_signals
                = Cardinality({k \in 1..Len(signals) :
                                  /\ signals[k].risk_score < 900
                                  /\ signals[k].confidence > 100
                                  /\ signals[k].signal_type = "BUY_CALL"})
          /\ summary.market_summary.bearish_signals
                = Cardinality({k \in 1..Len(signals) :
                                  /\ signals[k].risk_score < 900
                                  /\ signals[k].confidence > 100
                                  /\ signals[k].signal_type = "BUY_PUT"})
          /\ {summary.risk_metrics.symbols[i] :
                 i \in 1..Len(summary.risk_metrics.symbols)}
                = {signals[k].symbol : k \in {n \in 1..Len(signals) :
                                                 /\ signals[n].risk_score < 900
                                                 /\ signals[n].confidence > 100}}
          /\ summary.execution_metadata.options_analyzed = Len(trading_signals)

\* Of the two signals built one has a risk_score of 0.9 or more; the
\* response holds the other one alone and the summary counts one signal.
C16_Witness ==
    /\ batch.pc = "responded"
    /\ Len(signals) = 2
    /\ \E i \in 1..2 : signals[i].risk_score >= 900
    /\ Len(trading_signals) = 1
    /\ summary.market_summary.total_signals = 1
    /\ Len(summary.risk_metrics.symbols) = 1

\* C17: the confidence, the risk_score and the kelly_fraction of every
\* signal built lie in [0, 1], and its var_95 is not negative.
C17_Ranges ==
    \A i \in 1..Len(signals) :
        /\ signals[i].confidence \in 0..1000
        /\ signals[i].risk_score \in 0..1000
        /\ signals[i].financial_metrics.kelly_fraction \in 0..1000
        /\ signals[i].financial_metrics.var_95 >= 0

\* A signal of a contract whose composite score is negative: the sum of
\* the confidence terms is below 0 and the confidence is 0.
C17_Witness ==
    \E i \in 1..Len(signals) :
        /\ signals[i].financial_metrics.composite_score < 0
        /\ signals[i].confidence = 0

\* C18: a contract whose ask price is missing or not positive has no
\* financial metrics in the analysis, and the signal built from it carries
\* FinancialMetrics that are 0 in every field.
C18_NoMetricsWithoutPremium ==
    /\ \A e \in 1..Len(options_analysis) :
          \A o \in 1..Len(options_analysis[e].options_analysis) :
              (\/ ~options_analysis[e].options_analysis[o].contract.has_ap
               \/ options_analysis[e].options_analysis[o].contract.ap <= 0)
                  => options_analysis[e].options_analysis[o].financial_metrics = "none"
    /\ \A i \in 1..Len(signals) :
          signals[i].entry_price <= 0 =>
              \A field \in DOMAIN signals[i].financial_metrics :
                  signals[i].financial_metrics[field] = 0

\* A signal was built from a contract of volume 800 with a negative ask
\* price, and its metrics are all 0.
C18_Witness ==
    \E i \in 1..Len(signals) :
        /\ signals[i].entry_price < 0
        /\ signals[i].volume = 800
        /\ signals[i].financial_metrics.volatility = 0
        /\ signals[i].financial_metrics.var_95 = 0

\* The scenario of C19: three news items, XYZ in two of them, with the
\* confidences 0.95 and 0.40, and a snapshot of XYZ of two contracts with
\* the volumes 1200 and 300.
C19_Scenario ==
    /\ Len(feed.sentiment_results) = 3
    /\ {feed.sentiment_results[i].confidence :
           i \in {k \in 1..3 :
                     \E n \in 1..Len(feed.sentiment_results[k].symbols) :
                         feed.sentiment_results[k].symbols[n] = "XYZ"}} = {950, 400}
    /\ Cardinality({k \in 1..3 :
                       \E n \in 1..Len(feed.sentiment_results[k].symbols) :
                           feed.sentiment_results[k].symbols[n] = "XYZ"}) = 2
    /\ feed.fetched["XYZ"].ok
    /\ Len(feed.fetched["XYZ"].payload) = 2
    /\ {Volume(feed.fetched["XYZ"].payload[k]) : k \in 1..2} = {1200, 300}

\* What C19 expects of the response: the contract of volume 1200 chosen
\* for XYZ, the overall sentiment "call", and one signal for XYZ in the
\* response, a BUY_CALL.
C19_Outcome ==
    /\ \E e \in 1..Len(options_analysis) :
          /\ options_analysis[e].symbol = "XYZ"
          /\ Len(options_analysis[e].options_analysis) = 1
          /\ Volume(options_analysis[e].options_analysis[1].contract) = 1200
    /\ overall_sentiment = "call"
    /\ Cardinality({i \in 1..Len(trading_signals) :
                       trading_signals[i].symbol = "XYZ"}) = 1
    /\ \A i \in 1..Len(trading_signals) :
          trading_signals[i].symbol = "XYZ" =>
              trading_signals[i].signal_type = "BUY_CALL"

\* C19 as stated: in the scenario the response is the expected one.
C19_EndToEnd ==
    (batch.pc = "responded" /\ C19_Scenario) => C19_Outcome

\* C19: in the scenario the response is the expected one when the 0.95
\* headline is positive and the 0.40 one negative, the third headline is
\* neutral, and the two contracts quote the same ask price of a dollar or
\* more and carry no volatility or open interest field.
C19_EndToEnd_NeutralThirdEqualAsk ==
    (/\ batch.pc = "responded"
     /\ C19_Scenario
     /\ \A i \in 1..3 :
           feed.sentiment_results[i].sentiment =
               IF feed.sentiment_results[i].confidence = 950 THEN "positive"
               ELSE IF feed.sentiment_results[i].confidence = 400 THEN "negative"
               ELSE "neutral"
     /\ \A k \in 1..2 :
           /\ feed.fetched["XYZ"].payload[k].has_ap
           /\ feed.fetched["XYZ"].payload[k].ap = feed.fetched["XYZ"].payload[1].ap
           /\ feed.fetched["XYZ"].payload[k].ap >= 100
           /\ feed.fetched["XYZ"].payload[k].iv_field = "none"
           /\ feed.fetched["XYZ"].payload[k].oi = -1)
        => C19_Outcome

\* The scenario with a neutral third headline and both contracts at 2.50:
\* the batch responded with its one BUY_CALL for XYZ, of sentiment score
\* 0.95, on the contract of volume 1200.
C19_Witness ==
    /\ batch.pc = "responded"
    /\ C19_Scenario
    /\ \E i \in 1..3 : feed.sentiment_results[i].sentiment = "neutral"
    /\ \A k \in 1..2 : feed.fetched["XYZ"].payload[k].ap = 250
    /\ \E i \in 1..Len(trading_signals) :
          /\ trading_signals[i].symbol = "XYZ"
          /\ trading_signals[i].signal_type = "BUY_CALL"
          /\ trading_signals[i].sentiment_score = 950
          /\ trading_signals[i].volume = 1200
    /\ overall_sentiment = "call"

\* C20: a batch has one future, hence one options fetch and at most one
\* entry, for each distinct non-crypto symbol of its news and none for a
\* crypto symbol, and symbols_analyzed plus crypto_symbols_filtered is the
\* number of distinct symbols.
C20_OneFetchPerSymbol ==
    batch.pc \in {"fanout", "responded", "panicked"} =>
        /\ DOMAIN task = {s \in Mentioned : ~is_crypto_symbol(s)}
        /\ \A s \in Symbols : is_crypto_symbol(s) =>
               s \notin DOMAIN task /\ s \notin in_progress /\ EntriesOf(s) = {}
        /\ \A s \in DOMAIN task :
               /\ Cardinality(EntriesOf(s)) <= 1
               /\ task[s].pc = "done" => Cardinality(EntriesOf(s)) = 1
               /\ task[s].pc \in {"queued", "request", "sleep"} => EntriesOf(s) = {}
        /\ Cardinality(unique_symbols_vec) + Cardinality(crypto_symbols)
              = Cardinality(Mentioned)

\* Three news items, two of them about XYZ and one about BTC: the batch
\* responded after one fetch, for XYZ.
C20_Witness ==
    /\ batch.pc = "responded"
    /\ Len(news.result.payload) = 3
    /\ Mentioned = {"XYZ", "BTC"}
    /\ DOMAIN task = {"XYZ"}
    /\ Cardinality(EntriesOf("XYZ")) = 1
    /\ crypto_symbols = {"BTC"}

(***************************************************************************)
(* Claims on the decoding of contract keys (SpecKeys).                     *)
(***************************************************************************)
\* C23: for every canonical contract key (symbol, YYMMDD, right letter,
\* strike as 8 digits of thousandths) the decoded expiration date is
\* 20YY-MM-DD and the decoded strike is the encoded one, also in the metrics
\* computed from the entry; no decoded strike is negative.
C23_KeyRoundTrip ==
    /\ parse_strike_price_from_contract_key(contract.contract_key) >= 0
    /\ \A symbol \in {<<"F">>, <<"S", "P", "Y">>, <<"A", "A", "P", "L">>,
                      <<"G", "O", "O", "G", "L">>},
          yy \in {25, 26, 30}, mm \in {1, 9, 12}, dd \in {1, 10, 16, 19, 31},
          right \in {"C", "P"},
          strike \in {0, 500, 12000, 150000, 155000, 99999999} :
          contract.contract_key = CanonicalKey(symbol, yy, mm, dd, right, strike)
          => /\ parse_expiration_date_from_contract_key(contract.contract_key)
                  = [tag |-> "date", y |-> 2000 + yy, m |-> mm, d |-> dd]
             /\ parse_strike_price_from_contract_key(contract.contract_key) = strike
             /\ \A i \in 1..Len(outcome) :
                   outcome[i].step = "metrics" /\ outcome[i].tag = "some" /\ strike > 0
                   => outcome[i].val = strike

\* A fifty-cent put on a three-letter symbol went through its metrics.
C23_Witness ==
    /\ contract.contract_key = CanonicalKey(<<"S", "P", "Y">>, 30, 1, 31, "P", 500)
    /\ stage = "finished"
    /\ \E i \in 1..Len(outcome) :
          outcome[i].step = "metrics" /\ outcome[i].tag = "some" /\ outcome[i].val = 500

(***************************************************************************)
(* Claims on the analysis of a symbol and on the signals (SpecSignals).    *)
(***************************************************************************)
\* C24: a symbol whose snapshot holds at least one contract has exactly one
\* OptionAnalysis in its entry of options_analysis, whatever the option
\* scores of the two slots are.
C24_OneAnalysisPerSnapshot ==
    \A i \in 1..Len(options_analysis) :
        LET fetched == feed.fetched[options_analysis[i].symbol]
        IN  (fetched.ok /\ Len(fetched.payload) >= 1)
            => Len(options_analysis[i].options_analysis) = 1

\* The option of options_analysis the signal of a symbol was built from.
OptionOf(symbol) ==
    options_analysis[CHOOSE e \in EntriesOf(symbol) :
                        Len(options_analysis[e].options_analysis) > 0].options_analysis[1]

\* The base confidence of a built signal, before the penalty.
BaseConfidence(signal) ==
    calculate_dynamic_confidence(signal.sentiment_score, OptionOf(signal.symbol).option_score,
                                 signal.financial_metrics.composite_score,
                                 signal.volume, signal.open_interest)

FundamentalRisk(signal) ==
    assess_fundamental_risk(signal.symbol, OptionOf(signal.symbol).contract)

\* C25: the confidence of a signal is its base confidence times 0.3 when
\* the fundamental risk is above 0.7, times 0.6 when above 0.5, times 0.8
\* when above 0.3 and the base confidence itself otherwise; so, for the base
\* confidence of the signal, no higher fundamental risk gives a higher
\* confidence and no lower one a lower confidence.
C25_ConfidencePenalty ==
    \A i \in 1..Len(signals) :
        /\ signals[i].confidence =
              (BaseConfidence(signals[i])
               * (IF FundamentalRisk(signals[i]) > 700 THEN 3
                  ELSE IF FundamentalRisk(signals[i]) > 500 THEN 6
                  ELSE IF FundamentalRisk(signals[i]) > 300 THEN 8
                  ELSE 10)) \div 10
        /\ \A risk \in {0, 300, 301, 500, 501, 700, 701, 1000} :
              /\ risk >= FundamentalRisk(signals[i])
                    => penalised(BaseConfidence(signals[i]), risk) <= signals[i].confidence
              /\ risk <= FundamentalRisk(signals[i])
                    => penalised(BaseConfidence(signals[i]), risk) >= signals[i].confidence

\* Two signals were built in one batch, one of a fundamental risk above 0.7
\* whose confidence is positive and below its base confidence, and one of a
\* fundamental risk of at most 0.3 that kept its base confidence.
C25_Witness ==
    /\ \E i \in 1..Len(signals) :
          /\ FundamentalRisk(signals[i]) > 700
          /\ signals[i].confidence > 0
          /\ signals[i].confidence < BaseConfidence(signals[i])
    /\ \E i \in 1..Len(signals) :
          /\ FundamentalRisk(signals[i]) <= 300
          /\ signals[i].confidence = BaseConfidence(signals[i])
          /\ signals[i].confidence > 0

C27_EmptyDefaults ==
    (batch.pc = "responded" /\ Len(trading_signals) = 0) =>
        /\ summary.market_summary.total_signals = 0
        /\ summary.market_summary.market_sentiment = "NEUTRAL"
        /\ summary.market_summary.overall_confidence = 0
        /\ summary.risk_metrics.max_portfolio_drawdown = 0
        /\ summary.risk_metrics.diversification_score = 0
        /\ summary.risk_metrics.sector_exposure = "empty"
        /\ summary.risk_metrics.portfolio_var = "number"
        /\ summary.risk_metrics.volatility_regime # "HIGH"

(***************************************************************************)
(* Claims on the sentiment section (SpecCache).                            *)
(***************************************************************************)
\* C28: when a batch has merged its results, it holds one sentiment per
\* headline, in the order of the headlines, and each is the model's answer
\* for its own headline; every index was filled exactly once, by a cached
\* result or by a new prediction, and none kept the neutral placeholder.
C28_MergeAligned ==
    \A r \in Batches :
        req[r].pc = "analysed" =>
            /\ Len(req[r].sentiments) = Len(req[r].headlines)
            /\ \A i \in 1..Len(req[r].headlines) :
                  /\ predict(req[r].headlines[i]).ok
                  /\ req[r].sentiments[i] =
                        [sentiment |-> predict(req[r].headlines[i]).sentiment,
                         confidence |-> predict(req[r].headlines[i]).confidence]
                  /\ req[r].sentiments[i] # [sentiment |-> "neutral", confidence |-> 50]
                  /\ Cardinality({n \in 1..Len(req[r].uncached_indices) :
                                     req[r].uncached_indices[n] = i})
                     + Cardinality({n \in 1..Len(req[r].cached_results) :
                                       req[r].cached_results[n].i = i}) = 1

\* A batch of two headlines has merged a cached result for its first
\* headline with a new prediction for its second.
C28_Witness ==
    \E r \in Batches :
        /\ req[r].pc = "analysed"
        /\ req[r].headlines = <<AppleBeats, TeslaRecalls>>
        /\ Len(req[r].cached_results) = 1
        /\ req[r].cached_results[1].i = 1
        /\ req[r].uncached_indices = <<2>>
        /\ req[r].sentiments = <<[sentiment |-> "positive", confidence |-> 93],
                                 [sentiment |-> "negative", confidence |-> 88]>>

\* C29: the step in which the batched prediction of a batch fails takes the
\* batch to its error "ONNX sentiment analysis failed: ..." and leaves the
\* sentiment cache as it is; the batch takes no step after it; and an entry
\* is written to the cache only by a batch whose whole prediction succeeded.
C29_FailureLeavesCache ==
    [][\A r \in Batches :
          /\ (/\ req[r].pc = "predict"
              /\ ~predict_batch(uncached_headlines(req[r])).ok
              /\ req'[r] # req[r])
             => /\ req'[r].pc = "error"
                /\ req'[r].error = "ONNX sentiment analysis failed: "
                                   \o predict_batch(uncached_headlines(req[r])).err
                /\ req'[r].uncached_sentiments = <<>>
                /\ SENTIMENT_CACHE' = SENTIMENT_CACHE
          /\ req[r].pc = "error" => req'[r] = req[r]
          /\ \A key \in DOMAIN SENTIMENT_CACHE' :
                (\/ key \notin DOMAIN SENTIMENT_CACHE
                 \/ SENTIMENT_CACHE'[key] # SENTIMENT_CACHE[key])
                => \E w \in Batches :
                      /\ req[w].pc = "insert"
                      /\ req'[w].j = req[w].j + 1
                      /\ req[w].error = ""
                      /\ predict_batch(uncached_headlines(req[w])).ok
      ]_vars

\* A batch of a valid and an oversized headline has failed; the cache holds
\* the entry another batch wrote and none for the valid headline of the
\* failed one.
C29_Witness ==
    \E r \in Batches :
        /\ req[r].pc = "error"
        /\ req[r].headlines = <<TeslaRecalls, Oversized>>
        /\ req[r].error = "ONNX sentiment analysis failed: Input text too long"
        /\ DOMAIN SENTIMENT_CACHE = {CacheKey(AppleBeats)}

\* A request waits for the global lock.
Waiting(r) == req[r].pc \in {"lock", "health"}

\* C30: the model's own lock is held only by the holder of the global lock,
\* during its prediction, and never by a health check; whenever a request
\* waits for the global lock, the lock is free or its holder can take a
\* step; and, if no prediction lasts forever, every request that waits for
\* the lock gets it.
C30_LockOrder ==
    /\ [](\A r \in Batches :
             /\ ONNX_SENTIMENT_MODEL.model_locked_by = r
                   => ONNX_SENTIMENT_MODEL.locked_by = r /\ req[r].pc = "predict"
             /\ ONNX_SENTIMENT_MODEL.locked_by = r
                   <=> req[r].pc \in {"lookup", "predict", "insert", "health_guard"}
             /\ Waiting(r) =>
                   \/ ONNX_SENTIMENT_MODEL.locked_by = Unlocked /\ ENABLED Lock(r)
                   \/ ONNX_SENTIMENT_MODEL.locked_by = Unlocked /\ ENABLED health_check(r)
                   \/ \E h \in Batches \ {r} :
                         /\ ONNX_SENTIMENT_MODEL.locked_by = h
                         /\ ENABLED (Lookup(h) \/ LockModel(h) \/ Predict(h)
                                     \/ Insert(h) \/ Merge(h) \/ health_check(h)))
    /\ (\A h \in Batches : []<>(req[h].pc # "predict"))
          => \A r \in Batches : Waiting(r) ~> ~Waiting(r)

\* A health check waits for the global lock while a batch holds it and the
\* model's own lock, in its prediction.
C30_Witness ==
    \E r \in Batches, h \in Batches :
        /\ req[r].pc = "health"
        /\ req[h].pc = "predict"
        /\ ONNX_SENTIMENT_MODEL.locked_by = h
        /\ ONNX_SENTIMENT_MODEL.model_locked_by = h

C22_CancelDropsTasks ==
    [][/\ (batch.pc # "cancelled" /\ batch'.pc = "cancelled") =>
             /\ in_progress' = {}
             /\ news'.pc \in {"returned", "dropped"}
             /\ news'.sent = news.sent
             /\ DOMAIN task' = DOMAIN task
             /\ \A s \in DOMAIN task :
                   /\ task'[s].pc \in {"done", "dropped"}
                   /\ task'[s].pc = "done" <=> task[s].pc = "done"
                   /\ task'[s].sent = task[s].sent
       /\ (batch.pc = "cancelled" /\ batch'.pc = "cancelled" /\ batch'.no = batch.no) =>
             /\ task' = task
             /\ news' = news
             /\ in_progress' = {}
             /\ options_analysis' = options_analysis
      ]_vars

\* A batch was cancelled while one symbol's fetch had completed and the
\* other's was on its second attempt; time has passed since.
C22_Witness ==
    /\ batch.pc = "cancelled"
    /\ now > 0
    /\ \E s \in DOMAIN task, t \in DOMAIN task :
          /\ task[s].pc = "dropped"
          /\ task[s].sent = 2
          /\ task[t].pc = "done"

====
